---- MODULE Spec2Model ----
(***************************************************************************)
(* A model of JakeStephen613/textbook_extraction: the font-driven chapter  *)
(* segmenter, the two-column reading-order reconstruction, the text        *)
(* cleaner and the region filter.                                          *)
(*                                                                         *)
(* Text is a sequence of one-character strings.  Font sizes are integers   *)
(* in tenths of a point (40 pt = 400).  A Python dict is an object: the    *)
(* chapters live in `heap`, and `current_chapter` and the entries of       *)
(* `chapters` are references into it (0 is None).                          *)
(***************************************************************************)
EXTENDS Integers, Sequences, FiniteSets, TLC

VARIABLES
    \* ---- extract_chapters_by_font (extract_textbook_by_chapter.py)
    num_pages,              \* doc.page_count
    page_num,               \* the page loop's index
    pc,                     \* "loop" | "spans" | "done"
    done_spans,             \* the prefix of sorted_spans already processed
    prev_span,              \* <<>> is None, <<s>> is the span s
    heap,                   \* the chapter dicts, by reference
    current_chapter,        \* a reference into heap, 0 is None
    current_chapter_page,   \* -1 is None
    chapters,               \* the returned list: references into heap
    \* ---- history of the run, read only by the properties
    hist,                   \* per chapter: the body spans it was given
    pages_done,             \* the pages already processed, each its spans
    \* ---- simple_clean and main's use of it (extract_textbook_by_chapter.py)
    clean_pc,               \* "idle" | "raw" | "once" | "twice"
    clean_in,               \* chapter['content'], the text to clean
    clean_once,             \* simple_clean(clean_in)
    clean_twice,            \* simple_clean(simple_clean(clean_in))
    clean_file,             \* the content main() writes for clean_in
    \* ---- the per-page span collection and sort of extract_chapters_by_font
    col_pc,                 \* "idle" | "page" | "collected" | "sorted" | "sorted_y"
    col_width,              \* page.rect.width
    col_height,             \* page.rect.height
    col_raw,                \* the decoder's spans of the page, in its order
    page_spans,             \* the spans collected from them
    sorted_spans,           \* left_spans + right_spans (extract_textbook_by_chapter.py)
    sorted_by_y,            \* left_spans + right_spans (clean_textbook.py)
    \* ---- extract_body_blocks (clean_single_page.py)
    flt_pc,                 \* "idle" | "page" | "loop" | "done"
    page_height,            \* page.rect.height
    flt_raw,                \* page.get_text("blocks"), in the decoder's order
    blocks,                 \* sorted(blocks, key=(y0, x0))
    flt_i,                  \* the block loop's position in blocks
    body_paragraphs,        \* the cleaned text of the blocks kept so far
    flt_out,                \* the returned text
    \* ---- history of the block loop, read only by the properties
    flt_kept,               \* per processed block: was it appended
    \* ---- normalize_unicode (extract_textbook_by_chapter.py)
    norm_pc,                \* "idle" | "raw" | "once" | "twice"
    norm_in,                \* the text given
    norm_once,              \* normalize_unicode(norm_in)
    norm_twice,             \* normalize_unicode(normalize_unicode(norm_in))
    \* ---- main and the page-number map (cleanup_ch_1.py)
    rng_pc,                 \* "idle" | "start" | "scan" | "extract" | "done" | "failed"
    pdf_exists,             \* pdf_path.exists()
    doc_pages,              \* doc.page_count
    doc,                    \* the pages read so far, each its blocks
    printed_range,          \* <<PRINTED_START_PAGE, PRINTED_END_PAGE>>
    printed_to_index,       \* the dict {printed number: page index}
    selected_indices,       \* sorted(set(selected_indices))
    rng_i,                  \* the extraction loop's position in selected_indices
    collected_chunks,       \* the body text of the pages extracted so far
    output_file,            \* <<>> is no file, <<t>> is the file holding t
    rng_error,              \* "none" or the exception raised
    program,                \* the script whose main() runs
    PAGE_INDEX,             \* clean_single_page.py's PAGE_INDEX
    main_chapters,          \* extract_textbook_by_chapter.py main's chapters
    \* ---- history of the run, read only by the properties
    detected,               \* per page read: its detected number, -1 is None
    extracted               \* the page indices extract_body_blocks was given

segVars == <<num_pages, page_num, pc, done_spans, prev_span, heap,
             current_chapter, current_chapter_page, chapters, hist, pages_done>>

cleanVars == <<clean_pc, clean_in, clean_once, clean_twice, clean_file>>

colVars == <<col_pc, col_width, col_height, col_raw, page_spans, sorted_spans, sorted_by_y>>

fltVars == <<flt_pc, page_height, flt_raw, blocks, flt_i, body_paragraphs,
             flt_out, flt_kept>>

normVars == <<norm_pc, norm_in, norm_once, norm_twice>>

rngVars == <<rng_pc, pdf_exists, doc_pages, doc, printed_range, printed_to_index,
             selected_indices, rng_i, collected_chunks, output_file, rng_error,
             program, PAGE_INDEX, main_chapters, detected, extracted>>

vars == <<segVars, cleanVars, colVars, fltVars, normVars, rngVars>>

\* What each component leaves alone: the variables of the others.
notSegVars == <<cleanVars, colVars, fltVars, normVars, rngVars>>

notCleanVars == <<segVars, colVars, fltVars, normVars, rngVars>>

notColVars == <<segVars, cleanVars, fltVars, normVars, rngVars>>

notFltVars == <<segVars, cleanVars, colVars, normVars, rngVars>>

notNormVars == <<segVars, cleanVars, colVars, fltVars, rngVars>>

notRngVars == <<segVars, cleanVars, colVars, fltVars, normVars>>

\* ------------------------------------------------------------------ bounds
MaxPages == 2
MaxSpans == 4
MaxPieces == 5
MaxRaw == 3
MaxBlockPieces == 3
MaxNormPieces == 3
MaxDocPages == 3
MaxDocBlocks == 3
MaxEdgeSpans == 2

\* --------------------------------------------------------------- constants
TITLE_FONT_SIZE == 400
CONTENT_FONT_SIZE == 100
FONT_TOLERANCE == 1
HEADER_MARGIN == 70
FOOTER_MARGIN == 70
FOOTER_SCAN_HEIGHT == 120

\* extract_textbook_single_file.py, in tenths of a point
FONT_TOLERANCE_SF == 2

\* The 30 points of the near-edge test, in hundredths of a point
EDGE_MARGIN == 3000

\* The 40 characters of the near-edge test
SHORT_TEXT == 40

\* ------------------------------------------------------------------- text
Last(s) == s[Len(s)]

\* Characters outside ASCII are written by code point: "U+00A0".
\* Python's whitespace (str.strip, and \s of a str pattern), as far as the
\* model's alphabet goes.
Whitespace == {" ", "\n", "\t", "\r", "\f", "U+00A0", "U+2009", "U+202F"}

IsSpace(c) == c \in Whitespace

RECURSIVE LStrip(_)
LStrip(t) == IF t # <<>> /\ IsSpace(Head(t)) THEN LStrip(Tail(t)) ELSE t

RECURSIVE RStrip(_)
RStrip(t) ==
    IF t # <<>> /\ IsSpace(Last(t)) THEN RStrip(SubSeq(t, 1, Len(t) - 1)) ELSE t

\* str.strip()
Strip(t) == RStrip(LStrip(t))

Abs(n) == IF n < 0 THEN -n ELSE n

\* ---------------------------------------------------------- the span pool
\* Spans as the collection loop leaves them: text stripped and non-empty.
Span(t, sz) == [text |-> t, size |-> sz]

SpanX == Span(<<"X">>, 120)
SpanT == Span(<<"T">>, 400)
SpanExtOne == Span(<<"e", "x", "t", " ", "o", "n", "e">>, 100)
SpanExtTwo == Span(<<"e", "x", "t", " ", "t", "w", "o">>, 100)
SpanIntro == Span(<<"1", " ", "I", "n", "t", "r", "o">>, 400)
SpanHello == Span(<<"H", "e", "l", "l", "o", " ", "w", "o", "r", "l", "d">>, 100)
SpanNext == Span(<<"2", " ", "N", "e", "x", "t">>, 400)

Pool == {SpanX, SpanT, SpanExtOne, SpanExtTwo, SpanIntro, SpanHello, SpanNext}

\* ------------------------------------------------------- segmenter helpers
is_title_font(size) == Abs(size - TITLE_FONT_SIZE) <= FONT_TOLERANCE

is_body_font(size) == Abs(size - CONTENT_FONT_SIZE) <= FONT_TOLERANCE

\* The chapter a title span opens.
new_chapter(text) == [title |-> text, content |-> <<>>, has_content |-> FALSE]

\* A slip: the test of the page left out.
extends_title_any_page(h, ch, chpage, page) == ch # 0 /\ ~h[ch].has_content

\* A further title span of the page the chapter started on, before any body.
extends_title(h, ch, chpage, page) ==
    /\ ch # 0
    /\ ~h[ch].has_content
    /\ chpage = page

\* A slip: the new span's text put in front of the title.
extended_title_in_front(title, text) == text \o <<" ">> \o title

extended_title(title, text) == title \o <<" ">> \o text

\* A slip: the chapter is saved whether or not it has content.
sealed_without_test(chs, h, ch) == IF ch # 0 THEN Append(chs, ch) ELSE chs

\* Save previous chapter if exists and has content.
sealed(chs, h, ch) ==
    IF ch # 0 /\ Strip(h[ch].content) # <<>> THEN Append(chs, ch) ELSE chs

\* A slip: the last chapter is forgotten.
last_chapter_forgotten(chs, h, ch) == chs

\* Don't forget the last chapter.
sealed_at_end(chs, h, ch) ==
    IF ch # 0 /\ Strip(h[ch].content) # <<>> THEN Append(chs, ch) ELSE chs

\* The text of the first body span of a chapter.
first_body_text(prev, text) ==
    IF prev # <<>> /\ prev[1].text # <<>>
    THEN <<Last(prev[1].text)>> \o text
    ELSE text

\* The text a body span adds to the open chapter h[ch].
body_text(h, ch, prev, text) ==
    IF ~h[ch].has_content THEN first_body_text(prev, text) ELSE text

\* A slip: the flag is never set, so every body span counts as the first.
with_body_unflagged(c, t) == [c EXCEPT !.content = @ \o t \o <<" ">>]

\* A slip: the content replaced, not extended.
with_body_replaced(c, t) == [c EXCEPT !.has_content = TRUE, !.content = t \o <<" ">>]

with_body(c, t) == [c EXCEPT !.has_content = TRUE, !.content = @ \o t \o <<" ">>]

\* A slip: the title branch leaves prev_span as it was.
prev_kept(prev, span) == prev

\* prev_span as each branch leaves it.
prev_after_title(prev, span) == <<span>>

prev_after_body(prev, span) == <<span>>

prev_after_other(prev, span) == <<span>>

\* prev_span = None  # resets per page
prev_at_page_start(prev) == <<>>

\* ------------------------------------------------------------ the history
NoBody == [nbody |-> 0, nrecov |-> 0, first_idx |-> -1, raw |-> <<>>]

RECURSIVE SumLen(_)
SumLen(ps) == IF ps = <<>> THEN 0 ELSE Len(Head(ps)) + SumLen(Tail(ps))

TotalSpans == SumLen(pages_done) + Len(done_spans)

\* ------------------------------------------------------------------- Init
CleanIdle ==
    /\ clean_pc = "idle"
    /\ clean_in = <<>>
    /\ clean_once = <<>>
    /\ clean_twice = <<>>
    /\ clean_file = <<>>

ColIdle ==
    /\ col_pc = "idle"
    /\ col_width = 0
    /\ col_height = 0
    /\ col_raw = <<>>
    /\ page_spans = <<>>
    /\ sorted_spans = <<>>
    /\ sorted_by_y = <<>>

FltIdle ==
    /\ flt_pc = "idle"
    /\ page_height = 0
    /\ flt_raw = <<>>
    /\ blocks = <<>>
    /\ flt_i = 0
    /\ body_paragraphs = <<>>
    /\ flt_out = <<>>
    /\ flt_kept = <<>>

NormIdle ==
    /\ norm_pc = "idle"
    /\ norm_in = <<>>
    /\ norm_once = <<>>
    /\ norm_twice = <<>>

RngIdle ==
    /\ rng_pc = "idle"
    /\ pdf_exists = FALSE
    /\ doc_pages = 0
    /\ doc = <<>>
    /\ printed_range = <<0, 0>>
    /\ printed_to_index = <<>>
    /\ selected_indices = <<>>
    /\ rng_i = 0
    /\ collected_chunks = <<>>
    /\ output_file = <<>>
    /\ rng_error = "none"
    /\ program = "none"
    /\ PAGE_INDEX = 0
    /\ main_chapters = <<>>
    /\ detected = <<>>
    /\ extracted = <<>>

SegInit ==
    /\ num_pages \in 0..MaxPages
    /\ page_num = 0
    /\ pc = "loop"
    /\ done_spans = <<>>
    /\ prev_span = <<>>
    /\ heap = <<>>
    /\ current_chapter = 0
    /\ current_chapter_page = -1
    /\ chapters = <<>>
    /\ hist = <<>>
    /\ pages_done = <<>>

SegIdle ==
    /\ num_pages = 0
    /\ page_num = 0
    /\ pc = "idle"
    /\ done_spans = <<>>
    /\ prev_span = <<>>
    /\ heap = <<>>
    /\ current_chapter = 0
    /\ current_chapter_page = -1
    /\ chapters = <<>>
    /\ hist = <<>>
    /\ pages_done = <<>>

Init == SegInit /\ CleanIdle /\ ColIdle /\ FltIdle /\ NormIdle /\ RngIdle

\* ---------------------------------------------------------------- actions
\* for page_num in range(num_pages): collect and sort the page's spans.
BeginPage ==
    /\ pc = "loop"
    /\ page_num < num_pages
    /\ pc' = "spans"
    /\ done_spans' = <<>>
    /\ prev_span' = prev_at_page_start(prev_span)
    /\ UNCHANGED <<num_pages, page_num, heap, current_chapter,
                   current_chapter_page, chapters, hist, pages_done>>
    /\ UNCHANGED notSegVars

TitleSpan(span) ==
    IF extends_title(heap, current_chapter, current_chapter_page, page_num)
    THEN /\ heap' = [heap EXCEPT ![current_chapter].title =
                                      extended_title(@, span.text)]
         /\ UNCHANGED <<current_chapter, current_chapter_page, chapters, hist>>
    ELSE /\ chapters' = sealed(chapters, heap, current_chapter)
         /\ heap' = Append(heap, new_chapter(span.text))
         /\ current_chapter' = Len(heap) + 1
         /\ current_chapter_page' = page_num
         /\ hist' = Append(hist, NoBody)

BodySpan(span) ==
    IF current_chapter # 0
    THEN LET t == body_text(heap, current_chapter, prev_span, span.text)
             g == hist[current_chapter]
         IN /\ heap' = [heap EXCEPT ![current_chapter] = with_body(@, t)]
            /\ hist' = [hist EXCEPT ![current_chapter] =
                  [nbody |-> g.nbody + 1,
                   nrecov |-> g.nrecov + (IF t = span.text THEN 0 ELSE 1),
                   first_idx |-> IF g.nbody = 0 THEN Len(done_spans)
                                 ELSE g.first_idx,
                   raw |-> g.raw \o span.text \o <<" ">>]]
            /\ UNCHANGED <<current_chapter, current_chapter_page, chapters>>
    ELSE UNCHANGED <<heap, current_chapter, current_chapter_page, chapters, hist>>

\* One iteration of: for span in sorted_spans.
ProcessSpan(span) ==
    /\ pc = "spans"
    /\ TotalSpans < MaxSpans
    /\ IF is_title_font(span.size)
       THEN TitleSpan(span) /\ prev_span' = prev_after_title(prev_span, span)
       ELSE IF is_body_font(span.size)
       THEN BodySpan(span) /\ prev_span' = prev_after_body(prev_span, span)
       ELSE /\ prev_span' = prev_after_other(prev_span, span)
            /\ UNCHANGED <<heap, current_chapter, current_chapter_page,
                           chapters, hist>>
    /\ done_spans' = Append(done_spans, span)
    /\ UNCHANGED <<num_pages, page_num, pc, pages_done>>
    /\ UNCHANGED notSegVars

\* sorted_spans is exhausted: on to the next page.
EndPage ==
    /\ pc = "spans"
    /\ pc' = "loop"
    /\ page_num' = page_num + 1
    /\ pages_done' = Append(pages_done, done_spans)
    /\ done_spans' = <<>>
    /\ UNCHANGED <<num_pages, prev_span, heap, current_chapter,
                   current_chapter_page, chapters, hist>>
    /\ UNCHANGED notSegVars

\* Don't forget the last chapter; return chapters.
Finish ==
    /\ pc = "loop"
    /\ page_num = num_pages
    /\ chapters' = sealed_at_end(chapters, heap, current_chapter)
    /\ pc' = "done"
    /\ UNCHANGED <<num_pages, page_num, done_spans, prev_span, heap,
                   current_chapter, current_chapter_page, hist, pages_done>>
    /\ UNCHANGED notSegVars

Next ==
    \/ BeginPage
    \/ \E span \in Pool : ProcessSpan(span)
    \/ EndPage
    \/ Finish

Spec == Init /\ [][Next]_vars

\* ========================================================= the text cleaner
Lower == {"a", "b", "c", "d", "e", "f", "g", "h", "i", "j", "k", "l", "m",
          "n", "o", "p", "q", "r", "s", "t", "u", "v", "w", "x", "y", "z"}

Upper == {"A", "B", "C", "D", "E", "F", "G", "H", "I", "J", "K", "L", "M",
          "N", "O", "P", "Q", "R", "S", "T", "U", "V", "W", "X", "Y", "Z"}

Digit == {"0", "1", "2", "3", "4", "5", "6", "7", "8", "9"}

\* The ligatures U+FB00..U+FB06 are letters too.
WordChars ==
    Lower \cup Upper \cup Digit
        \cup {"_", "U+FB00", "U+FB01", "U+FB02", "U+FB03", "U+FB04", "U+FB06"}

\* str.replace(key, repl): the leftmost occurrences, not overlapping.
RECURSIVE ReplaceAll(_, _, _)
ReplaceAll(t, key, repl) ==
    IF Len(t) < Len(key) THEN t
    ELSE IF SubSeq(t, 1, Len(key)) = key
    THEN repl \o ReplaceAll(SubSeq(t, Len(key) + 1, Len(t)), key, repl)
    ELSE <<Head(t)>> \o ReplaceAll(Tail(t), key, repl)

\* The dict as Python builds it from the source text, in insertion order.
UNICODE_NORMALIZATION_MAP == <<
    <<(<<"U+FB01">>), (<<"f", "i">>)>>,
    <<(<<"U+FB02">>), (<<"f", "l">>)>>,
    <<(<<"U+FB00">>), (<<"f", "f">>)>>,
    <<(<<"U+FB03">>), (<<"f", "f", "i">>)>>,
    <<(<<"U+FB04">>), (<<"f", "f", "l">>)>>,
    <<(<<"U+FB06">>), (<<"s", "t">>)>>,
    <<(<<":", " ", "\"", "'", "\"", ",", "\n", " ", " ", " ", " ">>), (<<"'">>)>>,
    <<(<<"\"">>), (<<"\"">>)>>,
    <<(<<"U+201A">>), (<<",">>)>>,
    <<(<<"U+201E">>), (<<"\"">>)>>,
    <<(<<"U+2013">>), (<<"-">>)>>,
    <<(<<"U+2014">>), (<<"-">>)>>,
    <<(<<"U+2015">>), (<<"-">>)>>,
    <<(<<"U+2026">>), (<<".", ".", ".">>)>>,
    <<(<<"U+2022">>), (<<"*">>)>>,
    <<(<<"U+00B7">>), (<<"*">>)>>,
    <<(<<"U+00D7">>), (<<"x">>)>>,
    <<(<<"U+00F7">>), (<<"/">>)>> >>

RECURSIVE ReplaceEach(_, _)
ReplaceEach(t, pairs) ==
    IF pairs = <<>> THEN t
    ELSE ReplaceEach(ReplaceAll(t, Head(pairs)[1], Head(pairs)[2]), Tail(pairs))

normalize_unicode(text) ==
    IF text = <<>> THEN <<>> ELSE ReplaceEach(text, UNICODE_NORMALIZATION_MAP)

\* The first position from p on whose character is not in class, Len(t) + 1
\* if there is none: where a greedy run of the class that starts at p ends.
RECURSIVE RunEnd(_, _, _)
RunEnd(t, p, class) ==
    IF p <= Len(t) /\ t[p] \in class THEN RunEnd(t, p + 1, class) ELSE p

\* (\b\w+)-\s+([a-z]{2,}\b) matched at position p: <<q, r, s>>, the word is
\* t[p..q-1], the hyphen t[q], the whitespace t[q+1..r-1], the continuation
\* t[r..s-1]; <<>> if there is no match at p.  Every part is a greedy run that
\* cannot give back a character, so the match at p is unique.
HyphenMatch(t, p) ==
    LET q == RunEnd(t, p, WordChars)
        r == RunEnd(t, q + 1, Whitespace)
        s == RunEnd(t, r, Lower)
    IN IF /\ t[p] \in WordChars
          /\ (p = 1 \/ t[p - 1] \notin WordChars)
          /\ q <= Len(t) /\ t[q] = "-"
          /\ r > q + 1
          /\ s - r >= 2
          /\ (s > Len(t) \/ t[s] \notin WordChars)
       THEN <<q, r, s>>
       ELSE <<>>

\* re.sub of the hyphenation pattern by \1\2, scanning from position p.
RECURSIVE HyphenSubFrom(_, _)
HyphenSubFrom(t, p) ==
    IF p > Len(t) THEN <<>>
    ELSE LET m == HyphenMatch(t, p)
         IN IF m # <<>>
            THEN SubSeq(t, p, m[1] - 1) \o SubSeq(t, m[2], m[3] - 1)
                     \o HyphenSubFrom(t, m[3])
            ELSE <<t[p]>> \o HyphenSubFrom(t, p + 1)

fix_hyphenation(t) == HyphenSubFrom(t, 1)

PARA_TOKEN == <<"U+00A7", "U+00A7", "P", "A", "R", "A", "_",
                "B", "R", "E", "A", "K", "U+00A7", "U+00A7">>

\* re.sub(r"\n{2,}", PARA_TOKEN, text)
RECURSIVE mark_paragraphs(_)
mark_paragraphs(t) ==
    IF t = <<>> THEN <<>>
    ELSE LET e == RunEnd(t, 1, {"\n"})
         IN IF e > 2
            THEN PARA_TOKEN \o mark_paragraphs(SubSeq(t, e, Len(t)))
            ELSE <<Head(t)>> \o mark_paragraphs(Tail(t))

\* re.sub(r"\s+", " ", text)
RECURSIVE collapse_whitespace(_)
collapse_whitespace(t) ==
    IF t = <<>> THEN <<>>
    ELSE LET e == RunEnd(t, 1, Whitespace)
         IN IF e > 1
            THEN <<" ">> \o collapse_whitespace(SubSeq(t, e, Len(t)))
            ELSE <<Head(t)>> \o collapse_whitespace(Tail(t))

normalize_newlines(t) ==
    ReplaceAll(ReplaceAll(t, <<"\r", "\n">>, <<"\n">>), <<"\r">>, <<"\n">>)

normalize_spaces(t) ==
    ReplaceAll(ReplaceAll(ReplaceAll(t, <<"U+00A0">>, <<" ">>),
                          <<"U+2009">>, <<" ">>), <<"U+202F">>, <<" ">>)

simple_clean(text) ==
    IF text = <<>> THEN <<>>
    ELSE LET t1 == normalize_unicode(text)
             t2 == normalize_spaces(normalize_newlines(t1))
             t3 == fix_hyphenation(t2)
             t4 == mark_paragraphs(t3)
             t5 == Strip(collapse_whitespace(t4))
         IN ReplaceAll(t5, PARA_TOKEN, <<"\n", "\n">>)

BOILERPLATE == <<"S", "e", "l", "e", "c", "t", "e", "d", " ",
                 "R", "e", "a", "d", "i", "n", "g", "s", " ",
                 "R", "e", "f", "e", "r", "e", "n", "c", "e", "s">>

\* The content main() writes for a chapter, from simple_clean's result.
written_content(cleaned) ==
    Strip(collapse_whitespace(ReplaceAll(cleaned, BOILERPLATE, <<>>)))

\* ---- the inputs: up to MaxPieces pieces, concatenated
Pieces == {<<"x">>, <<"y">>, <<"z", "z">>, <<"-", " ">>, <<"a">>, <<"b">>, <<"c">>,
           <<" ">>, <<"\n">>, <<"\n", "\n", "\n">>}

RECURSIVE Flatten(_)
Flatten(ps) == IF ps = <<>> THEN <<>> ELSE Head(ps) \o Flatten(Tail(ps))

CleanInputs(n) ==
    {Flatten(ps) : ps \in UNION {[1..k -> Pieces] : k \in 0..n}}

InitClean ==
    /\ SegIdle
    /\ ColIdle
    /\ FltIdle
    /\ NormIdle
    /\ RngIdle
    /\ clean_pc = "raw"
    /\ clean_in \in CleanInputs(MaxPieces)
    /\ clean_once = <<>>
    /\ clean_twice = <<>>
    /\ clean_file = <<>>

\* content = simple_clean(chapter['content'])
CleanOnce ==
    /\ clean_pc = "raw"
    /\ clean_once' = simple_clean(clean_in)
    /\ clean_file' = written_content(clean_once')
    /\ clean_pc' = "once"
    /\ UNCHANGED <<clean_in, clean_twice>>
    /\ UNCHANGED notCleanVars

\* simple_clean applied to its own output.
CleanAgain ==
    /\ clean_pc = "once"
    /\ clean_twice' = simple_clean(clean_once)
    /\ clean_pc' = "twice"
    /\ UNCHANGED <<clean_in, clean_once, clean_file>>
    /\ UNCHANGED notCleanVars

CleanNext == CleanOnce \/ CleanAgain

SpecClean == InitClean /\ [][CleanNext]_vars

\* ================================================= the column reconstructor
\* Coordinates are integers in hundredths of a point.

\* round(y0, 1), in tenths of a point.  The model's y0 values are not halfway
\* between two tenths, where the result would hang on the float's last bit.
Round1(y) == (y + 5) \div 10

\* cx < mid_x, with cx = (x0 + x1) / 2 and mid_x = width / 2: both sides doubled.
is_left(x0, x1, width) == x0 + x1 < width

\* Lexicographic order of two key tuples of the same length.
RECURSIVE KeyLess(_, _)
KeyLess(k1, k2) ==
    /\ k1 # <<>>
    /\ \/ Head(k1) < Head(k2)
       \/ Head(k1) = Head(k2) /\ KeyLess(Tail(k1), Tail(k2))

\* Pairs <<key, span>> in a stable order by key: by insertion from the left.
RECURSIVE SortedPairs(_)
SortedPairs(pairs) ==
    IF pairs = <<>> THEN <<>>
    ELSE LET x == Last(pairs)
             done == SortedPairs(SubSeq(pairs, 1, Len(pairs) - 1))
             \* x goes behind every pair whose key is not greater than its own
             n == Cardinality({i \in DOMAIN done : ~KeyLess(x[1], done[i][1])})
         IN SubSeq(done, 1, n) \o <<x>> \o SubSeq(done, n + 1, Len(done))

\* sorted(spans, key=...), keys[i] being the key of spans[i].
SortedBy(spans, keys) ==
    LET out == SortedPairs([i \in DOMAIN spans |-> <<keys[i], spans[i]>>])
    IN [i \in DOMAIN out |-> out[i][2]]

\* A slip: the secondary key left out.
rounded_y_key(s) == <<Round1(s.y0)>>

\* key=lambda s: (round(s['y0'], 1), s['x0'])
page_key(s) == <<Round1(s.y0), s.x0>>

\* key=lambda s: s['y']  (clean_textbook.py)
y_key(s) == <<s.y0>>

\* A slip: the right column first.
right_then_left(left, right) == right \o left

\* A slip: the right column forgotten.
left_only(left, right) == left

\* sorted_spans = left_spans + right_spans
reading_order(left, right) == left \o right

IsLeftSpan(s) == s.is_left

IsRightSpan(s) == ~s.is_left

PageKeys(spans) == [i \in DOMAIN spans |-> page_key(spans[i])]

YKeys(spans) == [i \in DOMAIN spans |-> y_key(spans[i])]

sorted_page(spans) ==
    LET left == SelectSeq(spans, IsLeftSpan)
        right == SelectSeq(spans, IsRightSpan)
    IN reading_order(SortedBy(left, PageKeys(left)),
                     SortedBy(right, PageKeys(right)))

sorted_page_by_y(spans) ==
    LET left == SelectSeq(spans, IsLeftSpan)
        right == SelectSeq(spans, IsRightSpan)
    IN reading_order(SortedBy(left, YKeys(left)), SortedBy(right, YKeys(right)))

\* The span dict the collection loop appends for the n-th span of the decoder;
\* id stands for the dict's identity.
collected_span(r, n, width) ==
    [id |-> n, text |-> normalize_unicode(Strip(r.text)), size |-> r.size,
     x0 |-> r.x0, y0 |-> r.y0, x1 |-> r.x1,
     is_left |-> is_left(r.x0, r.x1, width)]

RECURSIVE collected_from(_, _, _)
collected_from(raw, n, width) ==
    IF n > Len(raw) THEN <<>>
    ELSE (IF Strip(raw[n].text) = <<>> THEN <<>>
          ELSE <<collected_span(raw[n], n, width)>>)
             \o collected_from(raw, n + 1, width)

\* ---- the inputs
Widths == {10000, 12000}

\* <<x0, x1>>: left of both midlines; left; on the midline of the narrow
\* page; spanning the narrow page (x0 = 0, centre on its midline); right.
XExtents == {<<1000, 3000>>, <<2000, 4000>>, <<4000, 6000>>, <<0, 10000>>,
             <<6000, 9000>>}

\* 1.04 and 1.08 and 1.12 round to 1.0, 1.1, 1.1.
Y0s == {104, 108, 112}

\* A span of text at each position, and one span of blank text.
RawSpans ==
    {[text |-> <<"a">>, size |-> 100, x0 |-> x[1], x1 |-> x[2], y0 |-> y] :
        x \in XExtents, y \in Y0s}
    \cup {[text |-> <<" ">>, size |-> 100, x0 |-> 1000, x1 |-> 3000, y0 |-> 104]}

InitCol ==
    /\ SegIdle
    /\ CleanIdle
    /\ FltIdle
    /\ NormIdle
    /\ RngIdle
    /\ col_pc = "page"
    /\ col_width \in Widths
    /\ col_height = 0
    /\ col_raw \in UNION {[1..k -> RawSpans] : k \in 0..MaxRaw}
    /\ page_spans = <<>>
    /\ sorted_spans = <<>>
    /\ sorted_by_y = <<>>

\* for b in blocks: ... page_spans.append({...})
Collect ==
    /\ col_pc = "page"
    /\ page_spans' = collected_from(col_raw, 1, col_width)
    /\ col_pc' = "collected"
    /\ UNCHANGED <<col_width, col_height, col_raw, sorted_spans, sorted_by_y>>
    /\ UNCHANGED notColVars

\* extract_textbook_by_chapter.py: sort by (round(y0, 1), x0) in each column.
SortPage ==
    /\ col_pc = "collected"
    /\ sorted_spans' = sorted_page(page_spans)
    /\ col_pc' = "sorted"
    /\ UNCHANGED <<col_width, col_height, col_raw, page_spans, sorted_by_y>>
    /\ UNCHANGED notColVars

\* clean_textbook.py: sort by y in each column.
SortPageByY ==
    /\ col_pc = "collected"
    /\ sorted_by_y' = sorted_page_by_y(page_spans)
    /\ col_pc' = "sorted_y"
    /\ UNCHANGED <<col_width, col_height, col_raw, page_spans, sorted_spans>>
    /\ UNCHANGED notColVars

ColNext == Collect \/ SortPage \/ SortPageByY

SpecCol == InitCol /\ [][ColNext]_vars

\* ============================ the region filter (clean_single_page.py)
LowerLetters == <<"a", "b", "c", "d", "e", "f", "g", "h", "i", "j", "k", "l", "m",
                  "n", "o", "p", "q", "r", "s", "t", "u", "v", "w", "x", "y", "z">>

UpperLetters == <<"A", "B", "C", "D", "E", "F", "G", "H", "I", "J", "K", "L", "M",
                  "N", "O", "P", "Q", "R", "S", "T", "U", "V", "W", "X", "Y", "Z">>

\* re.IGNORECASE: letters are compared in lower case.
to_lower(c) ==
    IF c \in Upper
    THEN LowerLetters[CHOOSE i \in DOMAIN UpperLetters : UpperLetters[i] = c]
    ELSE c

lower_text(t) == [i \in DOMAIN t |-> to_lower(t[i])]

\* The text t has k at position p.
StartsAt(t, p, k) == p + Len(k) - 1 <= Len(t) /\ SubSeq(t, p, p + Len(k) - 1) = k

\* \b before position p.
word_boundary(t, p) ==
    (p > 1 /\ t[p - 1] \in WordChars) # (p <= Len(t) /\ t[p] \in WordChars)

\* \S+ from position p: the position behind the run.
RECURSIVE NonSpaceEnd(_, _)
NonSpaceEnd(t, p) ==
    IF p <= Len(t) /\ ~IsSpace(t[p]) THEN NonSpaceEnd(t, p + 1) ELSE p

URL_PREFIXES == {<<"h", "t", "t", "p", "s", ":", "/", "/">>,
                 <<"h", "t", "t", "p", ":", "/", "/">>,
                 <<"w", "w", "w", ".">>}

\* URL_RE matched at position p: the position behind the match, 0 if none.
\* At most one prefix fits at p, and \S+ is a greedy run to the next space.
url_match_end(t, p) ==
    LET ks == {k \in URL_PREFIXES : StartsAt(lower_text(t), p, k)}
    IN IF word_boundary(t, p) /\ ks # {}
       THEN LET q == p + Len(CHOOSE k \in ks : TRUE)
                e == NonSpaceEnd(t, q)
            IN IF e > q THEN e ELSE 0
       ELSE 0

\* URL_RE.sub("", t), scanning from position p.
RECURSIVE url_sub_from(_, _)
url_sub_from(t, p) ==
    IF p > Len(t) THEN <<>>
    ELSE LET e == url_match_end(t, p)
         IN IF e > 0 THEN url_sub_from(t, e)
            ELSE <<t[p]>> \o url_sub_from(t, p + 1)

\* A slip: the URL matches left in place.
urls_kept(t) == t

remove_urls(t) == url_sub_from(t, 1)

\* URL_RE.search(t)
has_url(t) == \E p \in DOMAIN t : url_match_end(t, p) > 0

LocalChars == WordChars \cup {".", "+", "-"}

DomainChars == WordChars \cup {".", "-"}

\* EMAIL_RE matched at position p: the position behind the match, 0 if none.
\* The local part is the run up to the "@"; the domain is the longest one that
\* leaves a "." and a word behind it in the run of domain characters.
email_match_end(t, p) ==
    IF p <= Len(t) /\ t[p] \in LocalChars /\ word_boundary(t, p)
    THEN LET a == RunEnd(t, p, LocalChars)
         IN IF a <= Len(t) /\ t[a] = "@"
            THEN LET b == RunEnd(t, a + 1, DomainChars)
                     dots == {d \in (a + 2)..(b - 2) :
                                 t[d] = "." /\ t[d + 1] \in WordChars}
                 IN IF dots # {}
                    THEN RunEnd(t, (CHOOSE d \in dots : \A x \in dots : x <= d) + 1,
                                WordChars)
                    ELSE 0
            ELSE 0
    ELSE 0

\* EMAIL_RE.sub("", t), scanning from position p.
RECURSIVE email_sub_from(_, _)
email_sub_from(t, p) ==
    IF p > Len(t) THEN <<>>
    ELSE LET e == email_match_end(t, p)
         IN IF e > 0 THEN email_sub_from(t, e)
            ELSE <<t[p]>> \o email_sub_from(t, p + 1)

remove_emails(t) == email_sub_from(t, 1)

\* EMAIL_RE.search(t)
has_email(t) == \E p \in DOMAIN t : email_match_end(t, p) > 0

\* re.sub(r"(\w+)-\n(\w+)", r"\1\2", t), scanning from position p.
RECURSIVE line_hyphen_sub_from(_, _)
line_hyphen_sub_from(t, p) ==
    IF p > Len(t) THEN <<>>
    ELSE LET q == RunEnd(t, p, WordChars)
             s == RunEnd(t, q + 2, WordChars)
         IN IF /\ q > p
               /\ q + 2 <= Len(t)
               /\ t[q] = "-" /\ t[q + 1] = "\n"
               /\ s > q + 2
            THEN SubSeq(t, p, q - 1) \o SubSeq(t, q + 2, s - 1)
                     \o line_hyphen_sub_from(t, s)
            ELSE <<t[p]>> \o line_hyphen_sub_from(t, p + 1)

clean_block_text(text) ==
    IF text = <<>> THEN <<>>
    ELSE LET t1 == ReplaceAll(ReplaceAll(text, <<"\r", "\n">>, <<"\n">>),
                              <<"\r">>, <<"\n">>)
             t2 == ReplaceAll(t1, <<"U+00A0">>, <<" ">>)
             t3 == ReplaceAll(ReplaceAll(t2, <<"U+FB01">>, <<"f", "i">>),
                              <<"U+FB02">>, <<"f", "l">>)
             t4 == remove_emails(remove_urls(t3))
             t5 == line_hyphen_sub_from(t4, 1)
             t6 == ReplaceAll(mark_paragraphs(t5), <<"\n">>, <<" ">>)
             t7 == Strip(collapse_whitespace(t6))
         IN ReplaceAll(t7, PARA_TOKEN, <<"\n", "\n">>)

\* if not text: continue;  raw = text.strip();  if not raw: continue
is_blank(text) == Strip(text) = <<>>

\* if y1 < HEADER_MARGIN: continue
in_header(y1) == y1 < HEADER_MARGIN

\* if y0 > page_height - FOOTER_MARGIN: continue
in_footer(y0, height) == y0 > height - FOOTER_MARGIN

\* PAGE_NUM_RE.match(raw): ^\s*\d+\s*$
is_page_number(raw) ==
    LET a == RunEnd(raw, 1, Whitespace)
        b == RunEnd(raw, a, Digit)
        c == RunEnd(raw, b, Whitespace)
    IN b > a /\ c > Len(raw)

\* URL_RE.search(raw) and not URL_RE.sub("", raw).strip()
is_pure_url(raw) == has_url(raw) /\ Strip(remove_urls(raw)) = <<>>

\* EMAIL_RE.search(raw) and not EMAIL_RE.sub("", raw).strip()
is_pure_email(raw) == has_email(raw) /\ Strip(remove_emails(raw)) = <<>>

CAPTION_WORDS == {<<"f", "i", "g", "u", "r", "e">>, <<"f", "i", "g", ".">>,
                  <<"f", "i", "g">>, <<"t", "a", "b", "l", "e">>, <<"b", "o", "x">>}

\* A slip: \s* in place of \s+.
is_caption_unspaced(raw) ==
    LET a == RunEnd(raw, 1, Whitespace)
    IN \E k \in CAPTION_WORDS :
          /\ StartsAt(lower_text(raw), a, k)
          /\ LET r == RunEnd(raw, a + Len(k), Whitespace)
             IN r <= Len(raw) /\ raw[r] \in Digit

\* FIGURE_RE.match(raw): ^\s*(?:figure|fig\.?|table|box)\s+\d, any letter case
is_caption(raw) ==
    LET a == RunEnd(raw, 1, Whitespace)
    IN \E k \in CAPTION_WORDS :
          /\ StartsAt(lower_text(raw), a, k)
          /\ LET r == RunEnd(raw, a + Len(k), Whitespace)
             IN r > a + Len(k) /\ r <= Len(raw) /\ raw[r] \in Digit

\* One turn of the block loop: body_paragraphs after the block b.
paragraphs_after(paras, b, height) ==
    LET raw == Strip(b.text)
        cleaned == clean_block_text(b.text)
    IN IF \/ is_blank(b.text)
          \/ in_header(b.y1)
          \/ in_footer(b.y0, height)
          \/ is_page_number(raw)
          \/ is_pure_url(raw)
          \/ is_pure_email(raw)
          \/ is_caption(raw)
          \/ cleaned = <<>>
       THEN paras
       ELSE Append(paras, cleaned)

\* "\n\n".join(body_paragraphs)
RECURSIVE joined(_)
joined(paras) ==
    IF paras = <<>> THEN <<>>
    ELSE IF Len(paras) = 1 THEN Head(paras)
    ELSE Head(paras) \o <<"\n", "\n">> \o joined(Tail(paras))

\* key=lambda b: (b[1], b[0])
block_key(b) == <<b.y0, b.x0>>

sorted_blocks(bs) == SortedBy(bs, [i \in DOMAIN bs |-> block_key(bs[i])])

\* ---- the inputs: one or two blocks of up to MaxBlockPieces pieces in all
BlockPieces == {<<"w", "w", "w", ".", "a">>, <<"b", "@", "c", ".", "d">>,
                <<"F", "i", "g">>, <<"F", "i", "g", ".">>, <<" ">>, <<"\n", "\n">>,
                <<"3">>}

BlockTexts(k) == {Flatten(ps) : ps \in [1..k -> BlockPieces]}

PageHeights == {800}

\* <<x0, y0, y1>>: above the header margin, reaching it, and at and below the
\* footer margin of a page 800 high.
BlockBoxes == {<<50, 10, 60>>, <<20, 10, 70>>, <<50, 730, 750>>, <<50, 731, 760>>}

BlocksOf(k) ==
    {[x0 |-> g[1], y0 |-> g[2], y1 |-> g[3], text |-> t] :
        g \in BlockBoxes, t \in BlockTexts(k)}

\* The pairs <<k1, k2>> of piece counts of a page of two blocks.
Splits(n) == {k \in (0..n) \X (0..n) : k[1] + k[2] <= n}

InitFilter ==
    /\ SegIdle
    /\ CleanIdle
    /\ ColIdle
    /\ NormIdle
    /\ RngIdle
    /\ flt_pc = "page"
    /\ page_height \in PageHeights
    /\ \/ \E k \in 0..MaxBlockPieces : \E b \in BlocksOf(k) : flt_raw = <<b>>
       \/ \E k \in Splits(MaxBlockPieces) :
              \E b1 \in BlocksOf(k[1]), b2 \in BlocksOf(k[2]) : flt_raw = <<b1, b2>>
    /\ blocks = <<>>
    /\ flt_i = 0
    /\ body_paragraphs = <<>>
    /\ flt_out = <<>>
    /\ flt_kept = <<>>

\* blocks = sorted(blocks, key=lambda b: (b[1], b[0]))
SortBlocks ==
    /\ flt_pc = "page"
    /\ blocks' = sorted_blocks(flt_raw)
    /\ flt_i' = 1
    /\ flt_pc' = "loop"
    /\ UNCHANGED <<page_height, flt_raw, body_paragraphs, flt_out, flt_kept>>
    /\ UNCHANGED notFltVars

\* for block in blocks: ...
FilterBlock ==
    /\ flt_pc = "loop"
    /\ flt_i <= Len(blocks)
    /\ body_paragraphs' = paragraphs_after(body_paragraphs, blocks[flt_i], page_height)
    /\ flt_kept' = Append(flt_kept, body_paragraphs' # body_paragraphs)
    /\ flt_i' = flt_i + 1
    /\ UNCHANGED <<flt_pc, page_height, flt_raw, blocks, flt_out>>
    /\ UNCHANGED notFltVars

\* return "\n\n".join(body_paragraphs)
ReturnBody ==
    /\ flt_pc = "loop"
    /\ flt_i > Len(blocks)
    /\ flt_out' = joined(body_paragraphs)
    /\ flt_pc' = "done"
    /\ UNCHANGED <<page_height, flt_raw, blocks, flt_i, body_paragraphs, flt_kept>>
    /\ UNCHANGED notFltVars

FilterNext == SortBlocks \/ FilterBlock \/ ReturnBody

SpecFilter == InitFilter /\ [][FilterNext]_vars

\* ======================= the Unicode normalizer, on its own (by_chapter)
\* ---- the inputs: up to MaxNormPieces pieces, concatenated
NormPieces == {<<":", " ">>, <<"\"">>, <<"U+201E">>,
               <<"'", "\"", ",", "\n", " ", " ", " ", " ">>,
               <<"U+FB01">>, <<"U+2013">>, <<"U+2026">>, <<"f">>}

NormInputs(n) == {Flatten(ps) : ps \in UNION {[1..k -> NormPieces] : k \in 0..n}}

InitNorm ==
    /\ SegIdle
    /\ CleanIdle
    /\ ColIdle
    /\ FltIdle
    /\ RngIdle
    /\ norm_pc = "raw"
    /\ norm_in \in NormInputs(MaxNormPieces)
    /\ norm_once = <<>>
    /\ norm_twice = <<>>

\* text = normalize_unicode(text)
NormalizeOnce ==
    /\ norm_pc = "raw"
    /\ norm_once' = normalize_unicode(norm_in)
    /\ norm_pc' = "once"
    /\ UNCHANGED <<norm_in, norm_twice>>
    /\ UNCHANGED notNormVars

\* normalize_unicode applied to its own output.
NormalizeAgain ==
    /\ norm_pc = "once"
    /\ norm_twice' = normalize_unicode(norm_once)
    /\ norm_pc' = "twice"
    /\ UNCHANGED <<norm_in, norm_once>>
    /\ UNCHANGED notNormVars

NormNext == NormalizeOnce \/ NormalizeAgain

SpecNorm == InitNorm /\ [][NormNext]_vars

\* ================== the span collection of extract_textbook_single_file.py
\* UNICODE_NORMALIZATION_MAP of extract_textbook_single_file.py, a str.maketrans
\* table: one character to its replacement.
translation_of(c) ==
    CASE c = "U+FB00" -> <<"f", "f">>
      [] c = "U+FB01" -> <<"f", "i">>
      [] c = "U+FB02" -> <<"f", "l">>
      [] c = "U+FB03" -> <<"f", "f", "i">>
      [] c = "U+FB04" -> <<"f", "f", "l">>
      [] c \in {"U+2010", "U+2011", "U+2012", "U+2013", "U+2014", "U+2015"} -> <<"-">>
      [] c \in {"U+2018", "U+2019"} -> <<"'">>
      [] c \in {"U+201C", "U+201D"} -> <<"\"">>
      [] OTHER -> <<c>>

\* text.translate(UNICODE_NORMALIZATION_MAP)
RECURSIVE translate(_)
translate(t) ==
    IF t = <<>> THEN <<>> ELSE translation_of(Head(t)) \o translate(Tail(t))

\* is_title_font of extract_textbook_single_file.py, sizes in tenths of a point
is_title_font_sf(size) == Abs(size - TITLE_FONT_SIZE) <= FONT_TOLERANCE_SF

\* A slip: the exemption of the title fonts left out.
near_edge_any_font(size, y0, y1, height, text) ==
    (y0 < EDGE_MARGIN \/ height - y1 < EDGE_MARGIN) /\ Len(text) <= SHORT_TEXT

\* if not is_title_font(size):
\*     if (y0 < 30 or (height - y1) < 30) and len(text) <= 40: continue
is_running_header(size, y0, y1, height, text) ==
    /\ ~is_title_font_sf(size)
    /\ (y0 < EDGE_MARGIN \/ height - y1 < EDGE_MARGIN)
    /\ Len(text) <= SHORT_TEXT

\* page_spans.append({...}) of extract_textbook_single_file.py
collected_span_sf(r, n, width) ==
    [id |-> n, text |-> Strip(translate(r.text)), size |-> r.size,
     x0 |-> r.x0, y0 |-> r.y0, x1 |-> r.x1, y1 |-> r.y1,
     is_left |-> is_left(r.x0, r.x1, width)]

RECURSIVE collected_from_sf(_, _, _, _)
collected_from_sf(raw, n, width, height) ==
    IF n > Len(raw) THEN <<>>
    ELSE (IF \/ Strip(translate(raw[n].text)) = <<>>
             \/ is_running_header(raw[n].size, raw[n].y0, raw[n].y1, height,
                                  Strip(translate(raw[n].text)))
          THEN <<>>
          ELSE <<collected_span_sf(raw[n], n, width)>>)
             \o collected_from_sf(raw, n + 1, width, height)

\* ---- the inputs
\* n letters.
Letters(n) == [i \in 1..n |-> "a"]

\* A title, a text of 40 and one of 41 characters, a text of 40 characters
\* that has 41 once its ligature is written out, and a blank.
EdgeTexts ==
    {<<"T">>, Letters(40), Letters(41), <<"U+FB01">> \o Letters(39), <<" ">>}

\* Tenths of a point; 39.8 and 40.2 are left out, no double is either.
EdgeSizes == {400, 401, 100}

\* <<y0, y1>> on a page 800 points high: 29.99 and 30 points from the top,
\* 29.99 and 30 points from the bottom.
EdgeBoxes == {<<2999, 4000>>, <<3000, 4000>>, <<76000, 77001>>, <<76000, 77000>>}

EdgeRawSpans ==
    {[text |-> t, size |-> sz, x0 |-> 1000, x1 |-> 3000, y0 |-> g[1], y1 |-> g[2]] :
        t \in EdgeTexts, sz \in EdgeSizes, g \in EdgeBoxes}

InitEdge ==
    /\ SegIdle
    /\ CleanIdle
    /\ FltIdle
    /\ NormIdle
    /\ RngIdle
    /\ col_pc = "page"
    /\ col_width = 10000
    /\ col_height = 80000
    /\ col_raw \in UNION {[1..k -> EdgeRawSpans] : k \in 0..MaxEdgeSpans}
    /\ page_spans = <<>>
    /\ sorted_spans = <<>>
    /\ sorted_by_y = <<>>

\* extract_textbook_single_file.py: for b in blocks: ... page_spans.append({...})
CollectSingleFile ==
    /\ col_pc = "page"
    /\ page_spans' = collected_from_sf(col_raw, 1, col_width, col_height)
    /\ col_pc' = "collected"
    /\ UNCHANGED <<col_width, col_height, col_raw, sorted_spans, sorted_by_y>>
    /\ UNCHANGED notColVars

EdgeNext == CollectSingleFile \/ SortPage

SpecEdge == InitEdge /\ [][EdgeNext]_vars

\* ================== the page-range resolver and main (cleanup_ch_1.py)
LineBreaks == {"\n", "\r", "\f"}

\* The position of the first line break of t at or behind p, Len(t) + 1 if none.
RECURSIVE LineEnd(_, _)
LineEnd(t, p) ==
    IF p <= Len(t) /\ t[p] \notin LineBreaks THEN LineEnd(t, p + 1) ELSE p

\* str.splitlines(): "\r\n" is one break, and a final break ends the last line.
RECURSIVE splitlines(_)
splitlines(t) ==
    IF t = <<>> THEN <<>>
    ELSE LET e == LineEnd(t, 1)
             n == IF e < Len(t) /\ t[e] = "\r" /\ t[e + 1] = "\n" THEN 2 ELSE 1
         IN <<SubSeq(t, 1, e - 1)>> \o splitlines(SubSeq(t, e + n, Len(t)))

DigitSeq == <<"0", "1", "2", "3", "4", "5", "6", "7", "8", "9">>

\* int(s) of a string of digits.
RECURSIVE to_int(_)
to_int(s) ==
    IF s = <<>> THEN 0
    ELSE 10 * to_int(SubSeq(s, 1, Len(s) - 1))
            + (CHOOSE i \in DOMAIN DigitSeq : DigitSeq[i] = Last(s)) - 1

\* re.fullmatch(r"\d+", s)
is_number(s) == s # <<>> /\ \A i \in DOMAIN s : s[i] \in Digit

\* for line in text.splitlines(): the numbers appended for the lines.
RECURSIVE numbers_of_lines(_)
numbers_of_lines(lines) ==
    IF lines = <<>> THEN <<>>
    ELSE (IF is_number(Strip(Head(lines))) THEN <<to_int(Strip(Head(lines)))>>
          ELSE <<>>) \o numbers_of_lines(Tail(lines))

\* for block in page.get_text("blocks"): candidate_numbers after the blocks bs.
RECURSIVE candidate_numbers(_, _)
candidate_numbers(bs, height) ==
    IF bs = <<>> THEN <<>>
    ELSE (IF Strip(Head(bs).text) = <<>> \/ Head(bs).y0 < height - FOOTER_SCAN_HEIGHT
          THEN <<>>
          ELSE numbers_of_lines(splitlines(Head(bs).text)))
             \o candidate_numbers(Tail(bs), height)

\* A slip: the first candidate in place of the last.
first_candidate(page) ==
    LET c == candidate_numbers(page.blocks, page.height)
    IN IF c # <<>> THEN Head(c) ELSE -1

\* -1 is None.
detect_printed_page_number(page) ==
    LET c == candidate_numbers(page.blocks, page.height)
    IN IF c # <<>> THEN Last(c) ELSE -1

\* A slip: the entry overwritten by a later page.
set_always(mapping, num, idx) ==
    IF num = -1 THEN mapping
    ELSE [n \in DOMAIN mapping \cup {num} |-> IF n = num THEN idx ELSE mapping[n]]

\* if num is not None: mapping.setdefault(num, idx)
setdefault(mapping, num, idx) ==
    IF num = -1 \/ num \in DOMAIN mapping THEN mapping
    ELSE [n \in DOMAIN mapping \cup {num} |-> IF n = num THEN idx ELSE mapping[n]]

\* for i in range(num_pages): printed_to_index[i + 1] = i, if the dict is empty
with_fallback(mapping, n_pages) ==
    IF DOMAIN mapping = {} THEN [n \in 1..n_pages |-> n - 1] ELSE mapping

\* sorted(S) of a set of numbers.
RECURSIVE sorted_set(_)
sorted_set(S) ==
    IF S = {} THEN <<>>
    ELSE LET m == CHOOSE x \in S : \A y \in S : x <= y
         IN <<m>> \o sorted_set(S \ {m})

\* A slip: every page of the map, whatever the range.
indices_of_all(mapping, start, end) ==
    IF start > end THEN <<>>
    ELSE LET keys == sorted_set(DOMAIN mapping)
         IN [i \in DOMAIN keys |-> mapping[keys[i]]]

\* for printed_num in range(start, end + 1): the indices appended.
RECURSIVE indices_in_range(_, _, _)
indices_in_range(mapping, start, end) ==
    IF start > end THEN <<>>
    ELSE (IF start \in DOMAIN mapping THEN <<mapping[start]>> ELSE <<>>)
             \o indices_in_range(mapping, start + 1, end)

\* The paragraphs extract_body_blocks of cleanup_ch_1.py keeps of the blocks bs.
RECURSIVE body_paragraphs_of(_, _)
body_paragraphs_of(bs, height) ==
    IF bs = <<>> THEN <<>>
    ELSE LET b == Head(bs)
             para == Strip(collapse_whitespace(b.text))
         IN (IF \/ Strip(b.text) = <<>>
                \/ b.y1 < HEADER_MARGIN
                \/ b.y0 > height - FOOTER_MARGIN
                \/ para = <<>>
             THEN <<>> ELSE <<para>>) \o body_paragraphs_of(Tail(bs), height)

\* extract_body_blocks(page) of cleanup_ch_1.py
page_body_text(page) == joined(body_paragraphs_of(page.blocks, page.height))

\* ---- the inputs
\* <<y0, y1, text>> on a page 800 high: text and a number in the body, a number,
\* two numbers on two lines and text in the footer.
RngBlocks ==
    {[y0 |-> g[1], y1 |-> g[2], text |-> g[3]] :
        g \in {<<100, 120, <<"x">>>>, <<100, 120, <<"7">>>>,
               <<740, 760, <<"7">>>>, <<740, 760, <<"7", "\n", "8">>>>}}

RngPages(n) ==
    {[height |-> 800, blocks |-> bs] : bs \in UNION {[1..k -> RngBlocks] : k \in 0..n}}

\* <<PRINTED_START_PAGE, PRINTED_END_PAGE>>
PrintedRanges == {<<7, 8>>, <<8, 7>>, <<7, 9>>, <<1, 2>>}

RECURSIVE DocBlocks(_)
DocBlocks(d) == IF d = <<>> THEN 0 ELSE Len(Head(d).blocks) + DocBlocks(Tail(d))

InitRng ==
    /\ SegIdle
    /\ CleanIdle
    /\ ColIdle
    /\ FltIdle
    /\ NormIdle
    /\ rng_pc = "start"
    /\ pdf_exists \in BOOLEAN
    /\ doc_pages \in 0..MaxDocPages
    /\ doc = <<>>
    /\ printed_range \in PrintedRanges
    /\ printed_to_index = <<>>
    /\ selected_indices = <<>>
    /\ rng_i = 0
    /\ collected_chunks = <<>>
    /\ output_file = <<>>
    /\ rng_error = "none"
    /\ program = "cleanup_ch_1"
    /\ PAGE_INDEX = 0
    /\ main_chapters = <<>>
    /\ detected = <<>>
    /\ extracted = <<>>

\* if not pdf_path.exists(): raise FileNotFoundError;  doc = fitz.open(pdf_path)
OpenPdf ==
    /\ program = "cleanup_ch_1"
    /\ rng_pc = "start"
    /\ IF pdf_exists
       THEN rng_pc' = "scan" /\ UNCHANGED rng_error
       ELSE rng_pc' = "failed" /\ rng_error' = "FileNotFoundError"
    /\ UNCHANGED <<pdf_exists, doc_pages, doc, printed_range, printed_to_index,
                   selected_indices, rng_i, collected_chunks, output_file,
                   detected, extracted>>
    /\ UNCHANGED <<program, PAGE_INDEX, main_chapters>>
    /\ UNCHANGED notRngVars

\* build_printed_to_index_map: for idx, page in enumerate(doc): ...
ScanPage(page) ==
    /\ program = "cleanup_ch_1"
    /\ rng_pc = "scan"
    /\ Len(doc) < doc_pages
    /\ DocBlocks(doc) + Len(page.blocks) <= MaxDocBlocks
    /\ doc' = Append(doc, page)
    /\ printed_to_index' =
          setdefault(printed_to_index, detect_printed_page_number(page), Len(doc))
    /\ detected' = Append(detected, detect_printed_page_number(page))
    /\ UNCHANGED <<rng_pc, pdf_exists, doc_pages, printed_range, selected_indices,
                   rng_i, collected_chunks, output_file, rng_error, extracted>>
    /\ UNCHANGED <<program, PAGE_INDEX, main_chapters>>
    /\ UNCHANGED notRngVars

\* main, from the fallback to sorted(set(selected_indices))
ResolveRange ==
    /\ program = "cleanup_ch_1"
    /\ rng_pc = "scan"
    /\ Len(doc) = doc_pages
    /\ LET mapping == with_fallback(printed_to_index, doc_pages)
           picked == indices_in_range(mapping, printed_range[1], printed_range[2])
       IN /\ printed_to_index' = mapping
          /\ IF printed_range[1] > printed_range[2] \/ picked = <<>>
             THEN /\ rng_pc' = "failed"
                  /\ rng_error' = "ValueError"
                  /\ UNCHANGED selected_indices
             ELSE /\ rng_pc' = "extract"
                  /\ selected_indices' = sorted_set({picked[i] : i \in DOMAIN picked})
                  /\ UNCHANGED rng_error
    /\ UNCHANGED <<pdf_exists, doc_pages, doc, printed_range, rng_i,
                   collected_chunks, output_file, detected, extracted>>
    /\ UNCHANGED <<program, PAGE_INDEX, main_chapters>>
    /\ UNCHANGED notRngVars

\* for page_index in selected_indices: ...
ExtractPage ==
    /\ program = "cleanup_ch_1"
    /\ rng_pc = "extract"
    /\ rng_i < Len(selected_indices)
    /\ rng_i' = rng_i + 1
    /\ LET page_index == selected_indices[rng_i + 1]
       IN IF page_index < 0 \/ page_index >= doc_pages
          THEN UNCHANGED <<collected_chunks, extracted>>
          ELSE /\ extracted' = Append(extracted, page_index)
               /\ collected_chunks' =
                     IF page_body_text(doc[page_index + 1]) # <<>>
                     THEN Append(collected_chunks, page_body_text(doc[page_index + 1]))
                     ELSE collected_chunks
    /\ UNCHANGED <<rng_pc, pdf_exists, doc_pages, doc, printed_range,
                   printed_to_index, selected_indices, output_file, rng_error,
                   detected>>
    /\ UNCHANGED <<program, PAGE_INDEX, main_chapters>>
    /\ UNCHANGED notRngVars

\* final_text = "\n\n".join(collected_chunks); written unless it is blank
WriteOutput ==
    /\ program = "cleanup_ch_1"
    /\ rng_pc = "extract"
    /\ rng_i = Len(selected_indices)
    /\ output_file' = IF Strip(joined(collected_chunks)) # <<>>
                      THEN <<joined(collected_chunks)>>
                      ELSE output_file
    /\ rng_pc' = "done"
    /\ UNCHANGED <<pdf_exists, doc_pages, doc, printed_range, printed_to_index,
                   selected_indices, rng_i, collected_chunks, rng_error,
                   detected, extracted>>
    /\ UNCHANGED <<program, PAGE_INDEX, main_chapters>>
    /\ UNCHANGED notRngVars

RngNext ==
    \/ OpenPdf
    \/ \E page \in RngPages(MaxDocBlocks) : ScanPage(page)
    \/ ResolveRange
    \/ ExtractPage
    \/ WriteOutput

SpecRng == InitRng /\ [][RngNext]_vars

\* ================== main of clean_single_page.py and of
\* ================== extract_textbook_by_chapter.py
\* A slip: the test left out.
index_unchecked(i, n_pages) == TRUE

\* 0 <= PAGE_INDEX < num_pages
index_in_range(i, n_pages) == 0 <= i /\ i < n_pages

\* for block in blocks: ... of clean_single_page.py, from the paragraphs paras on.
RECURSIVE paragraphs_of(_, _, _)
paragraphs_of(paras, bs, height) ==
    IF bs = <<>> THEN paras
    ELSE paragraphs_of(paragraphs_after(paras, Head(bs), height), Tail(bs), height)

\* extract_body_blocks(page) of clean_single_page.py
extract_body_blocks(bs, height) ==
    joined(paragraphs_of(<<>>, sorted_blocks(bs), height))

\* The chapters extract_chapters_by_font hands to main.
BookChapters ==
    {[title |-> <<"T">>, content |-> <<"a">>],
     [title |-> <<"U">>, content |-> <<" ", "\n">>],
     [title |-> <<"V">>, content |-> <<"b", "-", " ", "c">>]}

Books(n) == UNION {[1..k -> BookChapters] : k \in 0..n}

InitSinglePage ==
    /\ SegIdle
    /\ CleanIdle
    /\ ColIdle
    /\ FltIdle
    /\ NormIdle
    /\ rng_pc = "start"
    /\ program = "clean_single_page"
    /\ pdf_exists \in BOOLEAN
    /\ doc_pages \in 0..MaxDocPages
    /\ PAGE_INDEX \in (-1)..MaxDocPages
    /\ doc = <<>>
    /\ printed_range = <<0, 0>>
    /\ printed_to_index = <<>>
    /\ selected_indices = <<>>
    /\ rng_i = 0
    /\ collected_chunks = <<>>
    /\ output_file = <<>>
    /\ rng_error = "none"
    /\ main_chapters = <<>>
    /\ detected = <<>>
    /\ extracted = <<>>

InitBook ==
    /\ SegIdle
    /\ CleanIdle
    /\ ColIdle
    /\ FltIdle
    /\ NormIdle
    /\ rng_pc = "start"
    /\ program = "extract_textbook_by_chapter"
    /\ pdf_exists \in BOOLEAN
    /\ doc_pages = 0
    /\ PAGE_INDEX = 0
    /\ doc = <<>>
    /\ printed_range = <<0, 0>>
    /\ printed_to_index = <<>>
    /\ selected_indices = <<>>
    /\ rng_i = 0
    /\ collected_chunks = <<>>
    /\ output_file = <<>>
    /\ rng_error = "none"
    /\ main_chapters = <<>>
    /\ detected = <<>>
    /\ extracted = <<>>

\* clean_single_page.py main, up to page = doc[PAGE_INDEX]
OpenSinglePage ==
    /\ program = "clean_single_page"
    /\ rng_pc = "start"
    /\ IF ~pdf_exists
       THEN rng_pc' = "failed" /\ rng_error' = "FileNotFoundError"
       ELSE IF ~index_in_range(PAGE_INDEX, doc_pages)
       THEN rng_pc' = "failed" /\ rng_error' = "IndexError"
       ELSE rng_pc' = "extract" /\ UNCHANGED rng_error
    /\ UNCHANGED <<pdf_exists, doc_pages, doc, printed_range, printed_to_index,
                   selected_indices, rng_i, collected_chunks, output_file,
                   program, PAGE_INDEX, main_chapters, detected, extracted>>
    /\ UNCHANGED notRngVars

\* cleaned_text = extract_body_blocks(page), written unless it is blank; bs are
\* the blocks of the page.
WriteSinglePage(bs) ==
    /\ program = "clean_single_page"
    /\ rng_pc = "extract"
    /\ LET cleaned_text == extract_body_blocks(bs, 800)
       IN /\ collected_chunks' = <<cleaned_text>>
          /\ output_file' = IF Strip(cleaned_text) # <<>>
                            THEN <<cleaned_text>> ELSE output_file
    /\ extracted' = <<PAGE_INDEX>>
    /\ rng_pc' = "done"
    /\ UNCHANGED <<pdf_exists, doc_pages, doc, printed_range, printed_to_index,
                   selected_indices, rng_i, rng_error, program, PAGE_INDEX,
                   main_chapters, detected>>
    /\ UNCHANGED notRngVars

\* extract_textbook_by_chapter.py main, up to chapters = extract_chapters_by_font(doc)
OpenBook(book) ==
    /\ program = "extract_textbook_by_chapter"
    /\ rng_pc = "start"
    /\ IF ~pdf_exists
       THEN rng_pc' = "failed" /\ rng_error' = "FileNotFoundError"
                               /\ UNCHANGED main_chapters
       ELSE rng_pc' = "extract" /\ main_chapters' = book /\ UNCHANGED rng_error
    /\ UNCHANGED <<pdf_exists, doc_pages, doc, printed_range, printed_to_index,
                   selected_indices, rng_i, collected_chunks, output_file,
                   program, PAGE_INDEX, detected, extracted>>
    /\ UNCHANGED notRngVars

\* for chapter in chapters: ... filepath.write_text(content)
WriteChapter ==
    /\ program = "extract_textbook_by_chapter"
    /\ rng_pc = "extract"
    /\ rng_i < Len(main_chapters)
    /\ rng_i' = rng_i + 1
    /\ LET content == written_content(simple_clean(main_chapters[rng_i + 1].content))
       IN output_file' = IF Strip(content) # <<>>
                         THEN Append(output_file, content) ELSE output_file
    /\ UNCHANGED <<rng_pc, pdf_exists, doc_pages, doc, printed_range,
                   printed_to_index, selected_indices, collected_chunks, rng_error,
                   program, PAGE_INDEX, main_chapters, detected, extracted>>
    /\ UNCHANGED notRngVars

\* doc.close()
CloseBook ==
    /\ program = "extract_textbook_by_chapter"
    /\ rng_pc = "extract"
    /\ rng_i = Len(main_chapters)
    /\ rng_pc' = "done"
    /\ UNCHANGED <<pdf_exists, doc_pages, doc, printed_range, printed_to_index,
                   selected_indices, rng_i, collected_chunks, output_file,
                   rng_error, program, PAGE_INDEX, main_chapters, detected,
                   extracted>>
    /\ UNCHANGED notRngVars

InitMain == InitRng \/ InitSinglePage \/ InitBook

MainNext ==
    \/ RngNext
    \/ OpenSinglePage
    \/ \E k \in 0..1 : \E b \in BlocksOf(k) : WriteSinglePage(<<b>>)
    \/ \E book \in Books(MaxDocPages) : OpenBook(book)
    \/ WriteChapter
    \/ CloseBook

SpecMain == InitMain /\ [][MainNext]_vars

\* ============================================================== the claims
Text_ext_one == SpanExtOne.text

Text_ext_two == SpanExtTwo.text

IsPrefix(s, t) == Len(s) <= Len(t) /\ SubSeq(t, 1, Len(s)) = s

\* A step that processes one span of the page: the span is Last(done_spans').
SpanStep == pc = "spans" /\ pc' = "spans" /\ Len(done_spans') = Len(done_spans) + 1

\* ---- C1
\* The page processed so far is [X, other font], [T, title], ["ext one", body],
\* ["ext two", body].
C1_Witness ==
    pc = "spans" /\ done_spans = <<SpanX, SpanT, SpanExtOne, SpanExtTwo>>

\* C1 as stated: after [prev ending in X], [title "T"], [body "ext one"],
\* [body "ext two"] on one page the open chapter's content is
\* "Xext one ext two ": the recovered character is the last character of the
\* fragment before the title.
C1_Original ==
    (pc = "spans" /\ done_spans = <<SpanX, SpanT, SpanExtOne, SpanExtTwo>>)
        => heap[current_chapter].content =
               <<"X">> \o Text_ext_one \o <<" ">> \o Text_ext_two \o <<" ">>

\* C1 as amended: after that sequence the content is "Text one ext two ", and
\* whenever a body span directly follows a title span on a page, the open
\* chapter's content is the last character of that title span's text, then the
\* body span's text, then a space.
C1_RecoveryFromTitle ==
    /\ (pc = "spans" /\ done_spans = <<SpanX, SpanT, SpanExtOne, SpanExtTwo>>)
          => /\ heap[current_chapter].title = <<"T">>
             /\ heap[current_chapter].content =
                    <<"T">> \o Text_ext_one \o <<" ">> \o Text_ext_two \o <<" ">>
    /\ \A n \in 2..Len(done_spans) :
          (/\ n = Len(done_spans)
           /\ is_title_font(done_spans[n - 1].size)
           /\ ~is_title_font(done_spans[n].size)
           /\ is_body_font(done_spans[n].size))
             => heap[current_chapter].content =
                    <<Last(done_spans[n - 1].text)>> \o done_spans[n].text \o <<" ">>

\* ---- C2
\* C2 as stated: every chapter that was given a body span has had exactly one
\* character recovered, also when its first body span was the first span
\* processed on its page.
C2_Original ==
    \A id \in DOMAIN hist : hist[id].nbody >= 1 => hist[id].nrecov = 1

\* C2 as amended: the recovery fires at most once per chapter: exactly once, on
\* the chapter's first body span, when that span is not the first span
\* processed on its page, and not at all when it is; the content is the body
\* spans' texts, each followed by a space, unchanged but for that one leading
\* character.
C2_RecoveryAtMostOnce ==
    \A id \in DOMAIN hist :
        LET g == hist[id]
            c == heap[id].content
        IN /\ g.nrecov = (IF g.nbody >= 1 /\ g.first_idx > 0 THEN 1 ELSE 0)
           /\ g.nrecov = 0 => c = g.raw
           /\ g.nrecov = 1 => c # <<>> /\ Tail(c) = g.raw

\* A chapter with two body spans, the first of them with a recovered character.
C2_Witness ==
    \E id \in DOMAIN hist : hist[id].nbody >= 2 /\ hist[id].nrecov = 1

\* ---- C3
RECURSIVE JoinTexts(_)
JoinTexts(ss) ==
    IF Len(ss) = 1 THEN ss[1].text
    ELSE JoinTexts(SubSeq(ss, 1, Len(ss) - 1)) \o <<" ">> \o Last(ss).text

C3_Merges ==
    (/\ SpanStep
     /\ is_title_font(Last(done_spans').size)
     /\ current_chapter # 0
     /\ hist[current_chapter].nbody = 0
     /\ current_chapter_page = page_num)
        => /\ heap' = [heap EXCEPT ![current_chapter].title =
                                       @ \o <<" ">> \o Last(done_spans').text]
           /\ current_chapter' = current_chapter
           /\ current_chapter_page' = current_chapter_page
           /\ chapters' = chapters

C3_OneTitle ==
    (/\ pc = "spans"
     /\ done_spans # <<>>
     /\ \A n \in DOMAIN done_spans : is_title_font(done_spans[n].size))
        => heap[current_chapter].title = JoinTexts(done_spans)

\* C3: a title span that arrives while a chapter is open, has no body span yet
\* and was opened on this page is appended to that chapter's title as " " +
\* text, with no chapter opened and none sealed; so the title spans that begin
\* a page form one title, joined by spaces in reading order.
C3_TitleMerge == [][C3_Merges]_vars /\ []C3_OneTitle

\* The title of the open chapter is "1 Intro 2 Next": two title spans merged.
C3_Witness ==
    /\ pc = "spans"
    /\ done_spans = <<SpanIntro, SpanNext>>
    /\ heap[current_chapter].title = SpanIntro.text \o <<" ">> \o SpanNext.text

\* ---- C4
ExamplePages == <<(<<SpanIntro, SpanHello>>), (<<SpanNext>>)>>

\* C4: no chapter of the returned list is one that was never given a body span;
\* page 1 = [40pt "1 Intro", 10pt "Hello world"], page 2 = [40pt "2 Next"]
\* returns exactly one chapter, titled "1 Intro".
C4_NoBodyNeverSealed ==
    /\ \A i \in DOMAIN chapters : hist[chapters[i]].nbody >= 1
    /\ (pc = "done" /\ pages_done = ExamplePages)
          => /\ Len(chapters) = 1
             /\ heap[chapters[1]].title = SpanIntro.text
             /\ Len(heap) = 2

\* The run over the two example pages has returned.
C4_Witness == pc = "done" /\ pages_done = ExamplePages

\* ---- C5
C5_AppendOnly ==
    /\ IsPrefix(chapters, chapters')
    /\ \A i \in DOMAIN chapters : heap'[chapters[i]] = heap[chapters[i]]

C5_Final ==
    /\ \A i, j \in DOMAIN chapters : i < j => chapters[i] < chapters[j]
    /\ (pc = "done" /\ current_chapter # 0
            /\ heap[current_chapter].content # <<>>)
          => chapters # <<>> /\ Last(chapters) = current_chapter

\* C5: when the run returns, an open chapter with non-empty content is the last
\* chapter of the list; every step leaves the chapters already in the list in
\* place and unchanged (title and content), and the list is in the order in
\* which the chapters were opened.
C5_DocumentAppendOnly == [][C5_AppendOnly]_vars /\ []C5_Final

\* The run has returned two chapters, the second sealed at end of document.
C5_Witness ==
    /\ pc = "done"
    /\ Len(chapters) = 2
    /\ chapters[2] = current_chapter

\* ---- C6
\* C6: simple_clean is idempotent: cleaning its own output changes nothing.
C6_Idempotent == clean_pc = "twice" => clean_twice = clean_once

\* ---- C7
\* The whitespace runs of t that start at position p or later are all either
\* one space or one paragraph break "\n\n".
RECURSIVE OnlyCleanRuns(_, _)
OnlyCleanRuns(t, p) ==
    IF p > Len(t) THEN TRUE
    ELSE LET e == RunEnd(t, p, Whitespace)
         IN IF e = p THEN OnlyCleanRuns(t, p + 1)
            ELSE /\ SubSeq(t, p, e - 1) \in {<<" ">>, <<"\n", "\n">>}
                 /\ OnlyCleanRuns(t, e)

\* C7: in simple_clean's output every whitespace run is one space or exactly
\* one paragraph break "\n\n" (no other whitespace next to a break, no other
\* newline), and "a\n\n\nb\nc" cleans to "a\n\nb c".
C7_ParagraphBreaks ==
    clean_pc \in {"once", "twice"} =>
        /\ OnlyCleanRuns(clean_once, 1)
        /\ clean_in = <<"a", "\n", "\n", "\n", "b", "\n", "c">>
              => clean_once = <<"a", "\n", "\n", "b", " ", "c">>

\* ---- C8
\* The fragment's horizontal centre (x0 + x1) / 2 is left of width / 2.
CentreLeft(s) == s.x0 + s.x1 < col_width

\* In out, no fragment centred at or right of the midline precedes one centred
\* left of it.
LeftFirst(out) ==
    \A i, j \in DOMAIN out : (i < j /\ CentreLeft(out[j])) => CentreLeft(out[i])

\* C8: in the reconstructed order of a page every fragment whose centre is left
\* of width/2 precedes every fragment whose centre is at or right of width/2,
\* whatever their y positions; all collected fragments are in the order.
C8_LeftBeforeRight ==
    /\ col_pc = "sorted" =>
          Len(sorted_spans) = Len(page_spans) /\ LeftFirst(sorted_spans)
    /\ col_pc = "sorted_y" =>
          Len(sorted_by_y) = Len(page_spans) /\ LeftFirst(sorted_by_y)

\* A left fragment precedes a right one that the decoder gave first and that
\* lies higher on the page.
C8_Witness ==
    /\ col_pc = "sorted"
    /\ \E i, j \in DOMAIN sorted_spans :
          /\ i < j
          /\ CentreLeft(sorted_spans[i]) /\ ~CentreLeft(sorted_spans[j])
          /\ sorted_spans[i].y0 > sorted_spans[j].y0
          /\ sorted_spans[i].id > sorted_spans[j].id

\* ---- C9
SameColumn(s, t) == CentreLeft(s) <=> CentreLeft(t)

\* s before t in a stable sort by (round(y0, 1), x0).
RoundedOrder(s, t) ==
    \/ Round1(s.y0) < Round1(t.y0)
    \/ Round1(s.y0) = Round1(t.y0) /\ s.x0 < t.x0
    \/ Round1(s.y0) = Round1(t.y0) /\ s.x0 = t.x0 /\ s.id < t.id

\* s before t in a stable sort by y0 alone.
RawYOrder(s, t) == s.y0 < t.y0 \/ (s.y0 = t.y0 /\ s.id < t.id)

\* C9 as stated: within each column the order is a stable sort by
\* (round(y0, 1), x0), in every script that reconstructs the order.
C9_Original ==
    /\ col_pc = "sorted" =>
          \A i, j \in DOMAIN sorted_spans :
              (i < j /\ SameColumn(sorted_spans[i], sorted_spans[j]))
                  => RoundedOrder(sorted_spans[i], sorted_spans[j])
    /\ col_pc = "sorted_y" =>
          \A i, j \in DOMAIN sorted_by_y :
              (i < j /\ SameColumn(sorted_by_y[i], sorted_by_y[j]))
                  => RoundedOrder(sorted_by_y[i], sorted_by_y[j])

\* C9 as amended: within each column the order of extract_textbook_by_chapter.py
\* is a stable sort by (round(y0, 1), x0): smaller rounded y0 first, equal
\* rounded y0 by x0, equal keys in the decoder's order; the order of
\* clean_textbook.py is a stable sort by the raw y0 alone.
C9_SortedInEachColumn ==
    /\ col_pc = "sorted" =>
          \A i, j \in DOMAIN sorted_spans :
              (i < j /\ SameColumn(sorted_spans[i], sorted_spans[j]))
                  => RoundedOrder(sorted_spans[i], sorted_spans[j])
    /\ col_pc = "sorted_y" =>
          \A i, j \in DOMAIN sorted_by_y :
              (i < j /\ SameColumn(sorted_by_y[i], sorted_by_y[j]))
                  => RawYOrder(sorted_by_y[i], sorted_by_y[j])

\* Two fragments of one column on the same rounded line are ordered by x0,
\* against their raw y0 and against the decoder's order.
C9_Witness ==
    /\ col_pc = "sorted"
    /\ \E i, j \in DOMAIN sorted_spans :
          /\ i < j
          /\ SameColumn(sorted_spans[i], sorted_spans[j])
          /\ Round1(sorted_spans[i].y0) = Round1(sorted_spans[j].y0)
          /\ sorted_spans[i].x0 < sorted_spans[j].x0
          /\ sorted_spans[i].y0 > sorted_spans[j].y0
          /\ sorted_spans[i].id > sorted_spans[j].id

\* ---- C10
\* The raw trimmed text of the j-th block of the loop.
RawOf(j) == Strip(blocks[j].text)

AllDigits(raw) == raw # <<>> /\ \A i \in DOMAIN raw : raw[i] \in Digit

OnlySpace(t) == \A i \in DOMAIN t : IsSpace(t[i])

\* t holds a paragraph break: two newlines in a row.
HasBreak(t) ==
    \E i \in DOMAIN t : i < Len(t) /\ t[i] = "\n" /\ t[i + 1] = "\n"

\* Removing the URL matches or the email matches leaves only whitespace.
LinksOnly(raw) ==
    \/ OnlySpace(remove_urls(raw))
    \/ OnlySpace(remove_emails(raw))

\* Removing the URL matches and then the email matches leaves only whitespace.
MixedLinksOnly(raw) == OnlySpace(remove_emails(remove_urls(raw)))

\* Nothing is left of the block when it is cleaned: only whitespace without a
\* paragraph break remains of its untrimmed text behind the URL and the email
\* matches.
CleansToNothing(text) ==
    MixedLinksOnly(text) /\ ~HasBreak(remove_emails(remove_urls(text)))

CaptionWords == {<<"f", "i", "g", "u", "r", "e">>, <<"f", "i", "g", ".">>,
                 <<"f", "i", "g">>, <<"t", "a", "b", "l", "e">>, <<"b", "o", "x">>}

\* raw begins with a caption word, at least `gap` whitespace characters and
\* then a digit.
CaptionStart(raw, gap) ==
    \E k \in CaptionWords : \E d \in DOMAIN raw :
        /\ Len(k) < d
        /\ [i \in 1..Len(k) |-> to_lower(raw[i])] = k
        /\ \A i \in (Len(k) + 1)..(d - 1) : IsSpace(raw[i])
        /\ d - 1 - Len(k) >= gap
        /\ raw[d] \in Digit

\* Of the blocks the loop has passed, those with text are dropped exactly when
\* they lie in the header or footer region, are all digits, are links only, or
\* start as a caption with at least `gap` whitespace before the digit; links
\* of both kinds count always (strict = FALSE) or when the block cleans to
\* nothing (strict = TRUE).
DropsExactly(gap, strict) ==
    /\ flt_pc \in {"loop", "done"} => Len(flt_kept) = flt_i - 1
    /\ Len(body_paragraphs) = Cardinality({j \in DOMAIN flt_kept : flt_kept[j]})
    /\ \A j \in DOMAIN flt_kept :
          RawOf(j) # <<>> =>
              (~flt_kept[j] <=>
                  \/ blocks[j].y1 < HEADER_MARGIN
                  \/ blocks[j].y0 > page_height - FOOTER_MARGIN
                  \/ AllDigits(RawOf(j))
                  \/ LinksOnly(RawOf(j))
                  \/ IF strict THEN CleansToNothing(blocks[j].text)
                               ELSE MixedLinksOnly(RawOf(j))
                  \/ CaptionStart(RawOf(j), gap))

\* C10 as stated: a block is dropped exactly when its bottom edge is above the
\* header margin, its top edge is below page height minus the footer margin,
\* its text is all digits, removing URL or email matches leaves only
\* whitespace, or it begins with figure/fig./table/box followed by a digit;
\* every other non-empty block is kept.
C10_Original == DropsExactly(0, FALSE)

\* C10 as amended: the same, but a caption is a block that begins with figure,
\* fig, fig., table or box in any letter case followed by at least one
\* whitespace character and then a digit ("Fig3" and "Fig.3" are kept), and a
\* block of URLs and emails together is dropped when it cleans to nothing:
\* when what is left of its untrimmed text behind them is whitespace without a
\* paragraph break.
C10_DropsExactly == DropsExactly(1, TRUE)

\* The loop has kept "Fig3" or "Fig.3" and dropped "3", both between the margins.
C10_Witness ==
    /\ flt_pc = "done"
    /\ \E i, j \in DOMAIN flt_kept :
          /\ flt_kept[i] /\ RawOf(i) \in {<<"F", "i", "g", "3">>, <<"F", "i", "g", ".", "3">>}
          /\ ~flt_kept[j] /\ RawOf(j) = <<"3">>
          /\ blocks[j].y1 >= HEADER_MARGIN
          /\ blocks[j].y0 <= page_height - FOOTER_MARGIN

\* ---- C11
\* The words of t: its maximal runs of characters that are not whitespace.
RECURSIVE Words(_)
Words(t) ==
    IF t = <<>> THEN <<>>
    ELSE IF IsSpace(Head(t)) THEN Words(Tail(t))
    ELSE LET e == NonSpaceEnd(t, 1)
         IN <<SubSeq(t, 1, e - 1)>> \o Words(SubSeq(t, e, Len(t)))

\* The number of blocks kept among the first j of the loop.
KeptUpTo(j) == Cardinality({i \in 1..j : flt_kept[i]})

\* The block lies between the margins and no other whole-block rule (page
\* number, email only, caption) takes it.
PlainBlock(j) ==
    /\ blocks[j].y1 >= HEADER_MARGIN
    /\ blocks[j].y0 <= page_height - FOOTER_MARGIN
    /\ ~AllDigits(RawOf(j))
    /\ ~has_email(RawOf(j))
    /\ ~CaptionStart(RawOf(j), 1)

C12_NormalizeIdempotent == norm_pc = "twice" => norm_twice = norm_once

\* ---- C13
\* The digits-only lines of the footer band of a page, as <<block, line>>.
FooterDigitLines(page) ==
    {p \in (DOMAIN page.blocks) \X (1..3) :
        /\ page.blocks[p[1]].y0 >= page.height - FOOTER_SCAN_HEIGHT
        /\ p[2] <= Len(splitlines(page.blocks[p[1]].text))
        /\ LET line == Strip(splitlines(page.blocks[p[1]].text)[p[2]])
           IN line # <<>> /\ \A i \in DOMAIN line : line[i] \in Digit}

\* The number of the last digits-only line of the footer band, -1 if none.
FooterNumber(page) ==
    IF FooterDigitLines(page) = {} THEN -1
    ELSE LET p == CHOOSE q \in FooterDigitLines(page) :
                     \A r \in FooterDigitLines(page) :
                         r[1] < q[1] \/ (r[1] = q[1] /\ r[2] <= q[2])
         IN to_int(Strip(splitlines(page.blocks[p[1]].text)[p[2]]))

\* C13: while the footer-number map is built, its keys are exactly the numbers
\* detected on the pages scanned so far (a page without a digits-only footer
\* line adds none), and each number maps to the smallest page index on which
\* it is the detected number, so that a later page never changes an entry.
C13_FooterMap ==
    rng_pc = "scan" =>
        /\ DOMAIN printed_to_index =
              {FooterNumber(doc[i]) : i \in DOMAIN doc} \ {-1}
        /\ \A n \in DOMAIN printed_to_index :
              /\ FooterNumber(doc[printed_to_index[n] + 1]) = n
              /\ \A i \in DOMAIN doc :
                    FooterNumber(doc[i]) = n => printed_to_index[n] <= i - 1

C13_Witness ==
    /\ rng_pc = "scan"
    /\ Len(doc) = 3
    /\ doc[1].blocks = <<[y0 |-> 740, y1 |-> 760, text |-> <<"7", "\n", "8">>]>>
    /\ FooterNumber(doc[2]) = 8
    /\ FooterNumber(doc[3]) = -1
    /\ DOMAIN printed_to_index = {8}
    /\ printed_to_index[8] = 0

\* ---- C14
Inverted == printed_range[1] > printed_range[2]

\* The printed numbers of the requested range that the map knows.
Matched == {n \in printed_range[1]..printed_range[2] : n \in DOMAIN printed_to_index}

\* C14: in each of the three scripts a run in which an exception was raised
\* (the input file missing, the page index out of range, the range inverted,
\* no page matching the range) has written no output file and has come to its
\* end, and a run that has written an output file met none of the four
\* conditions.
C14_FatalBeforeOutput ==
    /\ rng_error # "none" => (output_file = <<>> /\ rng_pc = "failed")
    /\ output_file # <<>> =>
          /\ rng_error = "none"
          /\ pdf_exists
          /\ program = "clean_single_page" => (0 <= PAGE_INDEX /\ PAGE_INDEX < doc_pages)
          /\ program = "cleanup_ch_1" => (~Inverted /\ Matched # {})
    /\ (rng_pc \notin {"start", "failed"}) => pdf_exists
    /\ (rng_pc \in {"extract", "done"} /\ program = "clean_single_page") =>
          (0 <= PAGE_INDEX /\ PAGE_INDEX < doc_pages)
    /\ (rng_pc \in {"extract", "done"} /\ program = "cleanup_ch_1") =>
          (~Inverted /\ Matched # {})

\* The range matches no page of a document whose pages have body text.
C14_Witness ==
    /\ program = "cleanup_ch_1"
    /\ rng_pc = "failed"
    /\ rng_error = "ValueError"
    /\ ~Inverted
    /\ Len(doc) = 2
    /\ \A i \in DOMAIN doc : page_body_text(doc[i]) # <<>>
    /\ DOMAIN printed_to_index = {8}
    /\ printed_range = <<1, 2>>
    /\ output_file = <<>>

\* ---- C15
RangeResolved == program = "cleanup_ch_1" /\ rng_pc \in {"failed", "extract", "done"}
                    /\ pdf_exists

\* C15 as stated: a range that is inverted or names a printed page that the
\* document does not have aborts the run with nothing extracted.
C15_Original ==
    /\ (RangeResolved /\ (Inverted \/ Matched # printed_range[1]..printed_range[2])) =>
          (rng_pc = "failed" /\ extracted = <<>>)
    /\ (program = "clean_single_page" /\ rng_pc # "start" /\ pdf_exists
          /\ ~(0 <= PAGE_INDEX /\ PAGE_INDEX < doc_pages)) =>
          (rng_pc = "failed" /\ extracted = <<>>)

\* C15, amended: cleanup_ch_1.py aborts with nothing extracted when the range
\* is inverted or none of its printed pages is in the document; when some are,
\* it skips the missing ones and extracts exactly the pages found, in page
\* order. clean_single_page.py aborts with nothing extracted when PAGE_INDEX
\* is outside the document.
C15_InvalidRangeFatal ==
    /\ (RangeResolved /\ (Inverted \/ Matched = {})) =>
          (rng_pc = "failed" /\ rng_error = "ValueError" /\ extracted = <<>>
             /\ output_file = <<>>)
    /\ (RangeResolved /\ ~Inverted /\ Matched # {}) =>
          /\ rng_pc \in {"extract", "done"}
          /\ selected_indices = sorted_set({printed_to_index[n] : n \in Matched})
          /\ extracted = SubSeq(selected_indices, 1, rng_i)
          /\ rng_pc = "done" => rng_i = Len(selected_indices)
    /\ (program = "clean_single_page" /\ rng_pc # "start" /\ pdf_exists
          /\ ~(0 <= PAGE_INDEX /\ PAGE_INDEX < doc_pages)) =>
          (rng_pc = "failed" /\ rng_error = "IndexError" /\ extracted = <<>>
             /\ output_file = <<>>)

\* Printed page 9 is missing; pages 7 and 8 were extracted and written.
C15_Witness ==
    /\ program = "cleanup_ch_1"
    /\ rng_pc = "done"
    /\ printed_range = <<7, 9>>
    /\ Matched = {7, 8}
    /\ extracted = <<0, 1>>
    /\ output_file # <<>>

\* ---- C16
InTitleBand(size) ==
    size \in (TITLE_FONT_SIZE - FONT_TOLERANCE)..(TITLE_FONT_SIZE + FONT_TOLERANCE)

InBodyBand(size) ==
    size \in (CONTENT_FONT_SIZE - FONT_TOLERANCE)..(CONTENT_FONT_SIZE + FONT_TOLERANCE)

\* The same-page merge applies: a chapter is open, has no body text yet and
\* was opened on the current page.
MergeApplies ==
    /\ current_chapter # 0
    /\ ~heap[current_chapter].has_content
    /\ current_chapter_page = page_num

C16_Opens ==
    (SpanStep /\ InTitleBand(Last(done_spans').size) /\ ~MergeApplies) =>
        /\ chapters' = IF current_chapter # 0
                          /\ Strip(heap[current_chapter].content) # <<>>
                       THEN Append(chapters, current_chapter)
                       ELSE chapters
        /\ current_chapter' \in DOMAIN heap' \ DOMAIN heap
        /\ heap'[current_chapter'].title = Last(done_spans').text
        /\ heap'[current_chapter'].content = <<>>
        /\ ~heap'[current_chapter'].has_content
        /\ current_chapter_page' = page_num
        /\ \A c \in DOMAIN heap : heap'[c] = heap[c]

\* C16: a title-band span to which the same-page merge does not apply seals
\* the open chapter into the document exactly when its trimmed content is not
\* empty and otherwise drops it, and opens a new chapter whose title is the
\* span's text, whose content is empty, whose content flag is unset and whose
\* start page is the current page.
C16_TitleOpensChapter == [][C16_Opens]_vars

\* Chapter 1 was dropped without content, chapter 2 was sealed, chapter 3 is
\* newly open.
C16_Witness ==
    /\ pc = "spans"
    /\ Len(heap) = 3
    /\ chapters = <<2>>
    /\ heap[1].content = <<>>
    /\ current_chapter = 3
    /\ heap[3] = [title |-> Last(done_spans).text, content |-> <<>>,
                  has_content |-> FALSE]
    /\ current_chapter_page = page_num

\* ---- C17
C17_PrevIsLast ==
    pc = "spans" =>
        prev_span = IF done_spans = <<>> THEN <<>> ELSE <<Last(done_spans)>>

C17_Recovers ==
    (/\ SpanStep
     /\ InBodyBand(Last(done_spans').size)
     /\ ~InTitleBand(Last(done_spans').size)
     /\ current_chapter # 0
     /\ ~heap[current_chapter].has_content) =>
        heap'[current_chapter].content =
            heap[current_chapter].content
               \o (IF done_spans = <<>> THEN <<>>
                   ELSE <<Last(Last(done_spans).text)>>)
               \o Last(done_spans').text \o <<" ">>

\* C17: the previous-span reference is empty when the first span of a page is
\* processed and after every span it is that span, whichever branch the span
\* took; so the character recovered for a chapter's first body span is the
\* last character of the span processed just before it on the same page, and
\* none when it is the first span of its page.
C17_PrevFragment == []C17_PrevIsLast /\ [][C17_Recovers]_vars

\* A chapter opened on the first page gets its first body span on the second,
\* after an other-font span.
C17_Witness ==
    /\ pc = "spans"
    /\ page_num = 1
    /\ done_spans = <<SpanX, SpanExtOne>>
    /\ current_chapter # 0
    /\ current_chapter_page = 0
    /\ heap[current_chapter].content = <<"X">> \o SpanExtOne.text \o <<" ">>
    /\ prev_span = <<SpanExtOne>>

\* ---- C18
C18_Passes ==
    (/\ SpanStep
     /\ ~InTitleBand(Last(done_spans').size)
     /\ (~InBodyBand(Last(done_spans').size) \/ current_chapter = 0)) =>
        /\ UNCHANGED <<heap, current_chapter, current_chapter_page, chapters>>
        /\ prev_span' = <<Last(done_spans')>>

\* C18: a span of any other font size, and a body span met while no chapter is
\* open, leave every chapter's title, content and flag, the open chapter, its
\* start page and the document as they were; only the previous-span reference
\* changes, to that span.
C18_OnlyPrevChanges == [][C18_Passes]_vars

\* A body span and an other-font span were processed with no chapter open.
C18_Witness ==
    /\ pc = "spans"
    /\ done_spans = <<SpanHello, SpanX>>
    /\ current_chapter = 0
    /\ heap = <<>>
    /\ chapters = <<>>
    /\ prev_span = <<SpanX>>

\* ---- C19
\* The text the collection loop sees for the n-th span read.
SeenText(n) == Strip(translate(col_raw[n].text))

NearEdge(n) ==
    col_raw[n].y0 < EDGE_MARGIN \/ col_height - col_raw[n].y1 < EDGE_MARGIN

TitleSized(n) ==
    col_raw[n].size \in
        (TITLE_FONT_SIZE - FONT_TOLERANCE_SF)..(TITLE_FONT_SIZE + FONT_TOLERANCE_SF)

Collected(n) == \E i \in DOMAIN page_spans : page_spans[i].id = n

\* C19: in extract_textbook_single_file.py a span with text, within 30 points
\* of the top or the bottom of the page and of at most 40 characters, is
\* dropped exactly when its font size is outside the title band; a title-band
\* span with text is always collected and reaches the segmenter's sorted list.
C19_TitleExempt ==
    /\ col_pc \in {"collected", "sorted"} =>
          \A n \in DOMAIN col_raw :
              /\ (SeenText(n) # <<>> /\ NearEdge(n) /\ Len(SeenText(n)) <= SHORT_TEXT)
                    => (~Collected(n) <=> ~TitleSized(n))
              /\ (SeenText(n) # <<>> /\ TitleSized(n)) => Collected(n)
    /\ col_pc = "sorted" =>
          \A n \in DOMAIN col_raw :
              (SeenText(n) # <<>> /\ TitleSized(n)) =>
                  \E i \in DOMAIN sorted_spans :
                      /\ sorted_spans[i].id = n
                      /\ sorted_spans[i].text = SeenText(n)
                      /\ sorted_spans[i].size = col_raw[n].size

\* Two spans "T" 29.99 points from the top: the one of 40 pt is kept, the one
\* of 10 pt is dropped.
C19_Witness ==
    /\ col_pc = "sorted"
    /\ col_height = 80000
    /\ Len(col_raw) = 2
    /\ \A n \in {1, 2} : col_raw[n].text = <<"T">> /\ col_raw[n].y0 = 2999
    /\ col_raw[1].size = 400
    /\ col_raw[2].size = 100
    /\ Len(sorted_spans) = 1
    /\ sorted_spans[1].id = 1

\* ---- C20
\* C20: whenever a chapter is open, its content flag is set exactly when its
\* trimmed content is not empty.
C20_FlagIffContent ==
    current_chapter # 0 =>
        (heap[current_chapter].has_content
            <=> Strip(heap[current_chapter].content) # <<>>)

\* A chapter with body text is open after one without was dropped.
C20_Witness ==
    /\ current_chapter = 2
    /\ ~heap[1].has_content
    /\ heap[2].has_content
    /\ heap[2].content = <<"T">> \o SpanHello.text \o <<" ">>

\* ---- C21
\* The spans processed so far, in processing order, each with its page.
RECURSIVE FlatFrom(_, _)
FlatFrom(ps, p) ==
    IF ps = <<>> THEN <<>>
    ELSE [i \in 1..Len(Head(ps)) |-> [page |-> p, span |-> Head(ps)[i]]]
            \o FlatFrom(Tail(ps), p + 1)

Processed == FlatFrom(Append(pages_done, done_spans), 0)

TitleAt(F, k) == InTitleBand(F[k].span.size)

BodyAt(F, k) == ~TitleAt(F, k) /\ InBodyBand(F[k].span.size)

\* The title and body spans before the k-th span on its page.
Before(F, k) ==
    {j \in 1..(k - 1) : F[j].page = F[k].page /\ (TitleAt(F, j) \/ BodyAt(F, j))}

\* The k-th span opens a chapter: it is a title span, and the title or body
\* span before it on its page, if any, is a body span.
Opens(F, k) ==
    /\ TitleAt(F, k)
    /\ LET before == Before(F, k)
       IN \/ before = {}
          \/ BodyAt(F, CHOOSE j \in before : \A i \in before : i <= j)

\* text + " " of the body spans from the k-th span up to the next of the
\* openings O.
RECURSIVE BodyFrom(_, _, _)
BodyFrom(F, O, k) ==
    IF k > Len(F) \/ k \in O THEN <<>>
    ELSE (IF BodyAt(F, k) THEN F[k].span.text \o <<" ">> ELSE <<>>)
            \o BodyFrom(F, O, k + 1)

\* C21: the chapters are the openings, in order; the content of each is the
\* texts, each followed by a space, of the body spans processed from its
\* opening to the next opening, in processing order, behind at most one
\* recovered character; so a body span before the first title is in no
\* chapter and no span's text is in two chapters.
C21_ContentIsItsBodySpans ==
    LET F == Processed
        O == {k \in DOMAIN F : Opens(F, k)}
    IN /\ Len(heap) = Cardinality(O)
       /\ \A k \in O :
             LET n == Cardinality({j \in O : j <= k})
                 body == BodyFrom(F, O, k + 1)
             IN \/ heap[n].content = body
                \/ /\ body # <<>>
                   /\ Len(heap[n].content) = Len(body) + 1
                   /\ Tail(heap[n].content) = body

\* A body span before the first title, then a chapter with two body spans.
C21_Witness ==
    /\ pc = "spans"
    /\ done_spans = <<SpanHello, SpanT, SpanExtOne, SpanExtTwo>>
    /\ Len(heap) = 1
    /\ heap[1].content = <<"T">> \o SpanExtOne.text \o <<" ">> \o SpanExtTwo.text \o <<" ">>

\* ---- C22
C22_TitleKept ==
    \A c \in DOMAIN heap :
        (heap[c].has_content \/ c # current_chapter \/ current_chapter_page # page_num)
            => (c \in DOMAIN heap' /\ heap'[c].title = heap[c].title)

C22_OpensNew ==
    (/\ SpanStep
     /\ InTitleBand(Last(done_spans').size)
     /\ current_chapter # 0
     /\ (heap[current_chapter].has_content \/ current_chapter_page < page_num)) =>
        /\ Len(heap') = Len(heap) + 1
        /\ current_chapter' = Len(heap')
        /\ heap'[current_chapter'].title = Last(done_spans').text

\* C22: no step changes the title of a chapter that has body text, of a
\* chapter that is not the open one, or of the open chapter while the page
\* being processed is not its start page; a title span met while the open
\* chapter has body text or was opened on an earlier page opens a new chapter.
C22_TitleFrozen == [][C22_TitleKept /\ C22_OpensNew]_vars

\* "T" got body text and kept its title when "1 Intro" came on the same page;
\* "1 Intro" kept its title when "2 Next" came on the next page.
C22_Witness ==
    /\ pc = "spans"
    /\ page_num = 1
    /\ pages_done = <<(<<SpanT, SpanExtOne, SpanIntro>>)>>
    /\ done_spans = <<SpanNext>>
    /\ Len(heap) = 3
    /\ heap[1].title = SpanT.text
    /\ heap[2].title = SpanIntro.text
    /\ heap[3].title = SpanNext.text

\* ---- C23
\* The spans of the page that have text, by their position in the decoder's list.
WithText == {n \in DOMAIN col_raw : Strip(col_raw[n].text) # <<>>}

\* out holds every span with text exactly once and nothing else, each with
\* its own text and box and in the column its centre gives it, the left
\* column first; a centre at width/2 is in the right column.
PermutationOfPage(out) ==
    /\ Len(out) = Cardinality(WithText)
    /\ \A n \in WithText : Cardinality({i \in DOMAIN out : out[i].id = n}) = 1
    /\ \A i \in DOMAIN out :
          /\ out[i].id \in WithText
          /\ out[i].text = Strip(col_raw[out[i].id].text)
          /\ out[i].x0 = col_raw[out[i].id].x0
          /\ out[i].x1 = col_raw[out[i].id].x1
          /\ out[i].y0 = col_raw[out[i].id].y0
          /\ out[i].is_left <=> (out[i].x0 + out[i].x1 < col_width)
          /\ (out[i].x0 + out[i].x1 = col_width) => ~out[i].is_left
          /\ \A j \in DOMAIN out : (i < j /\ out[j].is_left) => out[i].is_left

\* C23: the reconstructed order of a page is a permutation of the page's spans
\* with text: each is in exactly one column, a span centred exactly at
\* width/2 in the right one, and each is exactly once in the order.
C23_Permutation ==
    /\ col_pc = "sorted" => PermutationOfPage(sorted_spans)
    /\ col_pc = "sorted_y" => PermutationOfPage(sorted_by_y)

\* A span centred on the midline, a left span and a blank: the left span
\* comes first, the blank is gone.
C23_Witness ==
    /\ col_pc = "sorted"
    /\ col_width = 10000
    /\ Len(col_raw) = 3
    /\ col_raw[1].x0 = 4000 /\ col_raw[1].x1 = 6000
    /\ col_raw[2].x0 = 1000 /\ col_raw[2].text = <<"a">>
    /\ col_raw[3].text = <<" ">>
    /\ Len(sorted_spans) = 2
    /\ sorted_spans[1].id = 2
    /\ sorted_spans[2].id = 1

====
